---------------------------- MODULE Spec2Model ----------------------------
(***************************************************************************)
(* A model of the accessibility MCP server of roboteng/a11y-agent-bridge:  *)
(* the message envelope and its decoding (protocol.rs), the request        *)
(* dispatcher and its handlers (server.rs), and the provider the handlers  *)
(* call (platform).                                                        *)
(*                                                                         *)
(* Conventions.                                                            *)
(*  - A Rust String is a sequence of chunks.  Text the program takes apart *)
(*    (names, queries, versions) is written one character per chunk;       *)
(*    literals that are only compared as a whole (tags, message prefixes)  *)
(*    are a single chunk.                                                  *)
(*  - Option<T> is a sequence of length 0 (None) or 1 (Some).              *)
(*  - Result<T, E> is [ok |-> TRUE, val |-> v] or [ok |-> FALSE, err |-> e]*)
(*  - A JSON value is a record with one field naming its type.             *)
(***************************************************************************)
EXTENDS Integers, Sequences, FiniteSets, TLC

-----------------------------------------------------------------------------
(* Bounds of the model *)

\* The longest child list of the enumerated graphs.
MaxChildren == 2
\* The repeated child references of the root of the wide graph ("fan").
Width == 1001
\* Nodes of the deep graph ("chain", closed into a cycle).
ChainLen == 1002

-----------------------------------------------------------------------------
(* Option and Result *)

None == << >>
Some(x) == << x >>
IsSome(o) == Len(o) = 1
Unwrap(o) == o[1]

Ok(v) == [ok |-> TRUE, val |-> v]
Err(e) == [ok |-> FALSE, err |-> e]

-----------------------------------------------------------------------------
(* Strings *)

\* str::to_lowercase on one character of the alphabet the model uses.
lower_char(c) ==
    CASE c = "O" -> "o"
      [] c = "K" -> "k"
      [] c = "A" -> "a"
      [] OTHER -> c

\* str::to_lowercase
to_lowercase(s) == [i \in 1..Len(s) |-> lower_char(s[i])]

\* str::contains(pattern): some window of the haystack equals the pattern.
contains(hay, pat) ==
    \E i \in 0..(Len(hay) - Len(pat)) :
        \A j \in 1..Len(pat) : hay[i + j] = pat[j]

\* str::starts_with(prefix)
starts_with(s, prefix) ==
    /\ Len(prefix) <= Len(s)
    /\ \A j \in 1..Len(prefix) : s[j] = prefix[j]

-----------------------------------------------------------------------------
(* protocol.rs: the data model *)

\* NodeId(String): an opaque key.  The natural number k stands for the
\* identifier "n<k>"; MissingId is an identifier no provider registers.
MissingId == 0

\* f64: a finite number (here an integer), or one of NaN, +inf and -inf.
F64(n) == [f64 |-> n]
NaN == [nan |-> TRUE]
Infinity == [inf |-> 1]
NegInfinity == [inf |-> -1]
is_finite(x) == "f64" \in DOMAIN x

\* Action
ActionFocus == [type |-> "Focus"]
ActionPress == [type |-> "Press"]
ActionIncrement == [type |-> "Increment"]
ActionDecrement == [type |-> "Decrement"]
ActionSetValue(value) == [type |-> "SetValue", value |-> value]
ActionScroll(x, y) == [type |-> "Scroll", x |-> x, y |-> y]
ActionContextMenu == [type |-> "ContextMenu"]
ActionCustom(name) == [type |-> "Custom", name |-> name]

\* Node.  value, description and bounds are carried through unread by the
\* dispatcher and are left out.
Node(id, role, name, actions, children) ==
    [id |-> id, role |-> role, name |-> name,
     actions |-> actions, children |-> children]

\* Request
QueryTree(max_depth, max_nodes) ==
    [method |-> "QueryTree", max_depth |-> max_depth, max_nodes |-> max_nodes]
GetNode(node_id) == [method |-> "GetNode", node_id |-> node_id]
PerformAction(node_id, action) ==
    [method |-> "PerformAction", node_id |-> node_id, action |-> action]
FindByName(name) == [method |-> "FindByName", name |-> name]
Initialize(protocol_version) ==
    [method |-> "Initialize", protocol_version |-> protocol_version]
ToolsList == [method |-> "ToolsList"]

\* ResponseData
Tree(nodes) == [variant |-> "Tree", nodes |-> nodes]
NodeData(node) == [variant |-> "Node", node |-> node]
ActionResult(success) == [variant |-> "ActionResult", success |-> success]
Nodes(nodes) == [variant |-> "Nodes", nodes |-> nodes]

\* ErrorInfo and Response
ErrorInfo(code, message) == [code |-> code, message |-> message]
Success(result) == [status |-> "success", result |-> result]
Error(error) == [status |-> "error", error |-> error]

\* MessageContent
ContentRequest(req) == [request |-> req]
ContentResponse(resp) == [response |-> resp]
IsRequest(content) == "request" \in DOMAIN content
IsResponse(content) == "response" \in DOMAIN content

\* Message::PROTOCOL_VERSION = "1.0"
PROTOCOL_VERSION == << "1", ".", "0" >>

\* Message::request
MessageRequest(req) ==
    [protocol_version |-> PROTOCOL_VERSION, content |-> ContentRequest(req)]

\* A constructor that leaves the version empty.
MessageResponseUnversioned(resp) ==
    [protocol_version |-> << >>, content |-> ContentResponse(resp)]

\* Message::response
MessageResponse(resp) ==
    [protocol_version |-> PROTOCOL_VERSION, content |-> ContentResponse(resp)]

\* Message::success
MessageSuccess(data) == MessageResponse(Success(data))

\* Message::error
MessageError(code, message) == MessageResponse(Error(ErrorInfo(code, message)))

-----------------------------------------------------------------------------
(* platform: the provider behind dyn AccessibilityProvider *)

(***************************************************************************)
(* A provider is the accessibility tree an application exposes, as the     *)
(* trait's operations report it:                                           *)
(*   kind     the shape of the graph of child references,                  *)
(*   root_ok  whether get_root returns Ok,                                 *)
(*   ch, nm   for kind "small": the child list and the name of n1 and n2.  *)
(* The enumerated graphs have the nodes n1 (the root) and n2; their child  *)
(* lists may name n1, n2 and MissingId, in any order and more than once.   *)
(* "diamond" reaches n4 by two paths and closes a cycle back to the root;  *)
(* "chain" is a path of ChainLen nodes whose last link forks to the two     *)
(* last nodes, each closing a cycle back to the root; "fan" is a root      *)
(* whose child list names n3 once and then n2 Width times.                 *)
(***************************************************************************)
SmallIds == {1, 2}
ChildTargets == SmallIds \cup {MissingId}
ChildLists == UNION {[1..n -> ChildTargets] : n \in 0..MaxChildren}

NameOK == << "O", "K" >>
Nameok == << "o", "k" >>
NameKO == << "K", "O" >>
NameEmpty == << >>
Namings ==
    { << Some(NameOK), None >>,
      << Some(NameKO), Some(Nameok) >> }

\* When get_root fails the child lists are never read: one graph stands for all.
SmallProviders ==
    [kind : {"small"}, root_ok : {TRUE},
     ch : [SmallIds -> ChildLists], nm : Namings]
    \cup [kind : {"small"}, root_ok : {FALSE},
          ch : {[id \in SmallIds |-> << id >>]}, nm : Namings]
FixedProviders ==
    [kind : {"diamond", "chain", "fan"}, root_ok : {TRUE},
     ch : {<< >>}, nm : {<< >>}]
Providers == SmallProviders \cup FixedProviders

\* The root element of the application.
RootId == 1

\* The identifiers the provider resolves.
Registered(p) ==
    CASE p.kind = "small" -> SmallIds
      [] p.kind = "diamond" -> 1..4
      [] p.kind = "chain" -> 1..ChainLen
      [] p.kind = "fan" -> 1..3

\* The element's children attribute.
ChildrenOf(p, id) ==
    CASE p.kind = "small" -> p.ch[id]
      [] p.kind = "diamond" ->
            (CASE id = 1 -> << 2, 3 >>
               [] id = 2 -> << 4 >>
               [] id = 3 -> << 4 >>
               [] OTHER -> << 1 >>)
      [] p.kind = "chain" ->
            (CASE id < ChainLen - 2 -> << id + 1 >>
               [] id = ChainLen - 2 -> << ChainLen - 1, ChainLen >>
               [] OTHER -> << RootId >>)
      [] p.kind = "fan" ->
            IF id = RootId THEN [i \in 1..(Width + 1) |-> IF i = 1 THEN 3 ELSE 2]
            ELSE << >>

\* The element's title attribute.
NameOf(p, id) ==
    CASE p.kind = "small" -> p.nm[id]
      [] p.kind = "diamond" ->
            (CASE id = 1 -> None
               [] id = 2 -> Some(Nameok)
               [] id = 3 -> Some(NameEmpty)
               [] OTHER -> Some(NameOK))
      [] p.kind = "chain" -> IF id = ChainLen THEN Some(NameOK) ELSE None
      [] p.kind = "fan" -> IF id = 3 THEN Some(NameOK) ELSE None

\* The node the provider builds for a registered element.
NodeOf(p, id) ==
    Node(id, << "button" >>, NameOf(p, id), << ActionPress >>, ChildrenOf(p, id))

\* AccessibilityProvider::get_root
get_root(p) ==
    IF p.root_ok THEN Ok(NodeOf(p, RootId))
    ELSE Err(<< "root unavailable" >>)

\* AccessibilityProvider::get_node
get_node(p, node_id) ==
    IF node_id \in Registered(p) THEN Ok(NodeOf(p, node_id))
    ELSE Err(<< "Node ID not found in cache" >>)

\* The platform's answer to an action it is asked to run (AXError).
K_AX_ERROR_SUCCESS == 0
K_AX_ERROR_API_DISABLED == -25208
AXErrors == {K_AX_ERROR_SUCCESS, K_AX_ERROR_API_DISABLED}

\* AccessibilityProvider::perform_action; ax is the platform's answer.
perform_action(p, node_id, action, ax) ==
    IF node_id \notin Registered(p) THEN Err(<< "Node ID not found in cache" >>)
    ELSE IF action.type = "Scroll"
         THEN Err(<< "Scroll action not yet implemented for macOS" >>)
    ELSE IF ax = K_AX_ERROR_SUCCESS THEN Ok(TRUE)
    ELSE Err(<< "Failed to perform action: error code" >>)

\* One entry of the log of provider calls: the operation, its arguments and
\* whether it returned Ok.
Call(op, arg, result) == [op |-> op, arg |-> arg, ok |-> result.ok]

-----------------------------------------------------------------------------
(* The wire: JSON text and its decoding (serde_json::from_str::<Message>) *)

\* JSON values.  An object is a function from its keys to values.
JNull == [null |-> TRUE]
JBool(b) == [bool |-> b]
JNum(n) == [num |-> n]
JStr(s) == [str |-> s]
JArr(a) == [arr |-> a]
JObj(o) == [obj |-> o]
\* A line that is not JSON at all.
Garbage == [garbage |-> TRUE]

IsNull(v) == "null" \in DOMAIN v
IsBool(v) == "bool" \in DOMAIN v
IsNum(v) == "num" \in DOMAIN v
IsStr(v) == "str" \in DOMAIN v
IsArr(v) == "arr" \in DOMAIN v
IsObj(v) == "obj" \in DOMAIN v

\* The object with no keys, a key/value pair, and the object without a key.
EmptyObj == [k \in {} |-> JNull]
Pair(k, v) == k :> v
Without(o, k) == [x \in DOMAIN o \ {k} |-> o[x]]
Has(o, k) == k \in DOMAIN o
HasStr(o, k) == Has(o, k) /\ IsStr(o[k])

\* Combinators over Result: the first Ok of two, and an Ok value mapped.
or_else(r, other) == IF r.ok THEN r ELSE other
all_ok(rs) == \A i \in 1..Len(rs) : rs[i].ok
vals(rs) == [i \in 1..Len(rs) |-> rs[i].val]

\* Option<usize> with #[serde(default)]: a missing key and null are None, a
\* non-negative integer is Some, anything else is an error.
de_option_usize(o, k) ==
    IF ~Has(o, k) \/ IsNull(o[k]) THEN Ok(None)
    ELSE IF IsNum(o[k]) /\ o[k].num >= 0 THEN Ok(Some(o[k].num))
    ELSE Err(<< "invalid type" >>)

\* f64: a JSON number; null and a missing key are errors.
de_f64(o, k) ==
    IF Has(o, k) /\ IsNum(o[k]) THEN Ok(F64(o[k].num))
    ELSE Err(<< "invalid type: expected f64" >>)

\* Scroll from its two decoded coordinates.
scroll_of(x, y) ==
    IF x.ok /\ y.ok THEN Ok(ActionScroll(x.val, y.val)) ELSE Err(<< "missing field x" >>)

\* The variants of Action, by tag; a is the object.
de_action_variant(t, a) ==
    CASE t = << "focus" >> -> Ok(ActionFocus)
      [] t = << "press" >> -> Ok(ActionPress)
      [] t = << "increment" >> -> Ok(ActionIncrement)
      [] t = << "decrement" >> -> Ok(ActionDecrement)
      [] t = << "set_value" >> ->
            IF HasStr(a, "value") THEN Ok(ActionSetValue(a["value"].str))
            ELSE Err(<< "missing field value" >>)
      [] t = << "scroll" >> -> scroll_of(de_f64(a, "x"), de_f64(a, "y"))
      [] t = << "context_menu" >> -> Ok(ActionContextMenu)
      [] t = << "custom" >> ->
            IF HasStr(a, "name") THEN Ok(ActionCustom(a["name"].str))
            ELSE Err(<< "missing field name" >>)
      [] OTHER -> Err(<< "unknown variant" >>)

\* Action: internally tagged by "type", snake_case.
de_action(v) ==
    IF ~IsObj(v) \/ ~HasStr(v.obj, "type") THEN Err(<< "missing field type" >>)
    ELSE de_action_variant(v.obj["type"].str, v.obj)

\* QueryTree from its two decoded options.
query_tree_of(d, n) ==
    IF d.ok /\ n.ok THEN Ok(QueryTree(d.val, n.val)) ELSE Err(<< "invalid type" >>)

\* PerformAction from its node_id and its decoded action.
perform_action_of(node_id, a) ==
    IF a.ok THEN Ok(PerformAction(node_id, a.val)) ELSE a

\* Request: internally tagged by "method", snake_case; unknown keys are
\* ignored.
de_request(o) ==
    IF ~HasStr(o, "method") THEN Err(<< "missing field method" >>)
    ELSE CASE o["method"].str = << "query_tree" >> ->
                query_tree_of(de_option_usize(o, "max_depth"),
                              de_option_usize(o, "max_nodes"))
           [] o["method"].str = << "get_node" >> ->
                IF Has(o, "node_id") /\ IsStr(o["node_id"])
                THEN Ok(GetNode(o["node_id"].str))
                ELSE Err(<< "missing field node_id" >>)
           [] o["method"].str = << "perform_action" >> ->
                IF ~(Has(o, "node_id") /\ IsStr(o["node_id"]))
                THEN Err(<< "missing field node_id" >>)
                ELSE IF ~Has(o, "action") THEN Err(<< "missing field action" >>)
                ELSE perform_action_of(o["node_id"].str, de_action(o["action"]))
           [] o["method"].str = << "find_by_name" >> ->
                IF HasStr(o, "name") THEN Ok(FindByName(o["name"].str))
                ELSE Err(<< "missing field name" >>)
           [] OTHER -> Err(<< "unknown variant" >>)

\* The request kinds server.rs routes whose declaration is not in protocol.rs:
\* initialize{protocol_version?, capabilities?} and tools_list{}.  The
\* envelope is flattened, so its own field takes the key "protocol_version"
\* and the body of initialize sees none.
de_request_ext(o) ==
    IF ~HasStr(o, "method") THEN Err(<< "missing field method" >>)
    ELSE CASE o["method"].str = << "initialize" >> -> Ok(Initialize(None))
           [] o["method"].str = << "tools_list" >> -> Ok(ToolsList)
           [] OTHER -> Err(<< "unknown variant" >>)

\* Node from its object and its decoded actions.
node_of(n, actions) ==
    IF all_ok(actions)
    THEN Ok(Node(n["id"].str, n["role"].str,
                 IF HasStr(n, "name") THEN Some(n["name"].str) ELSE None,
                 vals(actions),
                 [i \in 1..Len(n["children"].arr) |-> n["children"].arr[i].str]))
    ELSE Err(<< "invalid action" >>)

\* Node: name is an Option (a missing key and null are None).
de_node(v) ==
    IF /\ IsObj(v)
       /\ Has(v.obj, "id") /\ IsStr(v.obj["id"])
       /\ HasStr(v.obj, "role")
       /\ (Has(v.obj, "name") => (IsNull(v.obj["name"]) \/ IsStr(v.obj["name"])))
       /\ Has(v.obj, "actions") /\ IsArr(v.obj["actions"])
       /\ Has(v.obj, "children") /\ IsArr(v.obj["children"])
       /\ \A i \in 1..Len(v.obj["children"].arr) : IsStr(v.obj["children"].arr[i])
    THEN node_of(v.obj, [i \in 1..Len(v.obj["actions"].arr) |->
                            de_action(v.obj["actions"].arr[i])])
    ELSE Err(<< "invalid node" >>)

\* A Vec<Node> from its decoded elements.
nodes_of(rs) == IF all_ok(rs) THEN Ok(vals(rs)) ELSE Err(<< "invalid node" >>)

\* A Vec<Node>.
de_nodes(v) ==
    IF IsArr(v) THEN nodes_of([i \in 1..Len(v.arr) |-> de_node(v.arr[i])])
    ELSE Err(<< "invalid type" >>)

\* The variants of ResponseData, each from the key it needs.
de_tree(r) ==
    IF r.ok THEN Ok(Tree(r.val)) ELSE r
de_node_data(r) ==
    IF r.ok THEN Ok(NodeData(r.val)) ELSE r
de_action_result(o) ==
    IF Has(o, "success") /\ IsBool(o["success"]) THEN Ok(ActionResult(o["success"].bool))
    ELSE Err(<< "missing field success" >>)
de_nodes_data(r) ==
    IF r.ok THEN Ok(Nodes(r.val)) ELSE r
field_or_null(o, k) == IF Has(o, k) THEN o[k] ELSE JNull

\* ResponseData: untagged, the first variant that fits is taken, in the
\* order Tree, Node, ActionResult, Nodes.
de_response_data(v) ==
    IF ~IsObj(v) THEN Err(<< "invalid type" >>)
    ELSE or_else(de_tree(de_nodes(field_or_null(v.obj, "nodes"))),
         or_else(de_node_data(de_node(field_or_null(v.obj, "node"))),
         or_else(de_action_result(v.obj),
                 de_nodes_data(de_nodes(field_or_null(v.obj, "nodes"))))))

\* ErrorCode, snake_case.
de_error_code(v) ==
    IF ~IsStr(v) THEN Err(<< "invalid type" >>)
    ELSE CASE v.str = << "not_found" >> -> Ok("NotFound")
           [] v.str = << "permission_denied" >> -> Ok("PermissionDenied")
           [] v.str = << "transient" >> -> Ok("Transient")
           [] v.str = << "invalid_action" >> -> Ok("InvalidAction")
           [] v.str = << "internal" >> -> Ok("Internal")
           [] OTHER -> Err(<< "unknown variant" >>)

\* Response::Success from its decoded result; Response::Error from the
\* error object and its decoded code.
success_of(r) == IF r.ok THEN Ok(Success(r.val)) ELSE r
error_of(e, code) ==
    IF code.ok /\ HasStr(e, "message")
    THEN Ok(Error(ErrorInfo(code.val, e["message"].str)))
    ELSE Err(<< "missing field message" >>)

\* Response: internally tagged by "status", snake_case.
de_response(o) ==
    IF ~HasStr(o, "status") THEN Err(<< "missing field status" >>)
    ELSE CASE o["status"].str = << "success" >> ->
                IF Has(o, "result") THEN success_of(de_response_data(o["result"]))
                ELSE Err(<< "missing field result" >>)
           [] o["status"].str = << "error" >> ->
                IF Has(o, "error") /\ IsObj(o["error"])
                THEN error_of(o["error"].obj,
                              de_error_code(field_or_null(o["error"].obj, "code")))
                ELSE Err(<< "missing field error" >>)
           [] OTHER -> Err(<< "unknown variant" >>)

\* The decoded request or response as a MessageContent.
as_request(r) == IF r.ok THEN Ok(ContentRequest(r.val)) ELSE r
as_response(r) ==
    IF r.ok THEN Ok(ContentResponse(r.val))
    ELSE Err(<< "data did not match any variant of untagged enum MessageContent" >>)

\* MessageContent: untagged, Request is tried before Response.
de_content(o) ==
    or_else(as_request(or_else(de_request(o), de_request_ext(o))),
            as_response(de_response(o)))

\* The Message of a version string and the decoded content.
message_of(version, c) ==
    IF c.ok THEN Ok([protocol_version |-> version, content |-> c.val]) ELSE c

\* A decoder whose protocol_version has #[serde(default)]: a missing key is
\* the empty string.
from_str_default_version(line) ==
    IF ~IsObj(line) THEN Err(<< "expected a JSON object" >>)
    ELSE IF ~Has(line.obj, "protocol_version")
         THEN message_of(<< >>, de_content(line.obj))
    ELSE IF ~IsStr(line.obj["protocol_version"])
         THEN Err(<< "invalid type: expected a string" >>)
    ELSE message_of(line.obj["protocol_version"].str,
                    de_content(Without(line.obj, "protocol_version")))

\* serde_json::from_str::<Message>: protocol_version is a required string
\* and the remaining keys are the flattened content.
from_str(line) ==
    IF ~IsObj(line) THEN Err(<< "expected a JSON object" >>)
    ELSE IF ~Has(line.obj, "protocol_version")
         THEN Err(<< "missing field protocol_version" >>)
    ELSE IF ~IsStr(line.obj["protocol_version"])
         THEN Err(<< "invalid type: expected a string" >>)
    ELSE message_of(line.obj["protocol_version"].str,
                    de_content(Without(line.obj, "protocol_version")))

\* serde_json::from_str::<Request>
from_str_request(text) ==
    IF ~IsObj(text) THEN Err(<< "expected a JSON object" >>)
    ELSE de_request(text.obj)

-----------------------------------------------------------------------------
(* The wire: encoding (serde_json::to_string) *)

\* f64: serde_json writes a finite number as a number and NaN and the
\* infinities as null.
ser_f64(x) == IF is_finite(x) THEN JNum(x.f64) ELSE JNull

\* Option<usize>: None is written as null.
ser_option_usize(o) == IF IsSome(o) THEN JNum(Unwrap(o)) ELSE JNull

\* Action: the tag "type" in snake_case, then the fields of the variant.
ser_action(a) ==
    JObj(CASE a.type = "Focus" -> Pair("type", JStr(<< "focus" >>))
           [] a.type = "Press" -> Pair("type", JStr(<< "press" >>))
           [] a.type = "Increment" -> Pair("type", JStr(<< "increment" >>))
           [] a.type = "Decrement" -> Pair("type", JStr(<< "decrement" >>))
           [] a.type = "SetValue" ->
                Pair("type", JStr(<< "set_value" >>)) @@ Pair("value", JStr(a.value))
           [] a.type = "Scroll" ->
                Pair("type", JStr(<< "scroll" >>))
                    @@ Pair("x", ser_f64(a.x)) @@ Pair("y", ser_f64(a.y))
           [] a.type = "ContextMenu" -> Pair("type", JStr(<< "context_menu" >>))
           [] a.type = "Custom" ->
                Pair("type", JStr(<< "custom" >>)) @@ Pair("name", JStr(a.name)))

\* Request: the tag "method" in snake_case, then the fields of the variant.
ser_request(r) ==
    CASE r.method = "QueryTree" ->
            Pair("method", JStr(<< "query_tree" >>))
                @@ Pair("max_depth", ser_option_usize(r.max_depth))
                @@ Pair("max_nodes", ser_option_usize(r.max_nodes))
      [] r.method = "GetNode" ->
            Pair("method", JStr(<< "get_node" >>)) @@ Pair("node_id", JStr(r.node_id))
      [] r.method = "PerformAction" ->
            Pair("method", JStr(<< "perform_action" >>))
                @@ Pair("node_id", JStr(r.node_id))
                @@ Pair("action", ser_action(r.action))
      [] r.method = "FindByName" ->
            Pair("method", JStr(<< "find_by_name" >>)) @@ Pair("name", JStr(r.name))

\* serde_json::to_string(&Request)
to_string_request(r) == JObj(ser_request(r))

\* Option<String>: None is written as null.
ser_option_string(o) == IF IsSome(o) THEN JStr(Unwrap(o)) ELSE JNull

\* Node: every field under its name; value, description and bounds are None.
ser_node(n) ==
    JObj(Pair("id", JStr(n.id))
         @@ Pair("role", JStr(n.role))
         @@ Pair("name", ser_option_string(n.name))
         @@ Pair("value", JNull)
         @@ Pair("description", JNull)
         @@ Pair("bounds", JNull)
         @@ Pair("actions", JArr([i \in 1..Len(n.actions) |-> ser_action(n.actions[i])]))
         @@ Pair("children", JArr([i \in 1..Len(n.children) |-> JStr(n.children[i])])))

\* Vec<Node>
ser_nodes(ns) == JArr([i \in 1..Len(ns) |-> ser_node(ns[i])])

\* ResponseData: untagged, only the fields of the variant are written.
ser_response_data(d) ==
    JObj(CASE d.variant = "Tree" -> Pair("nodes", ser_nodes(d.nodes))
           [] d.variant = "Node" -> Pair("node", ser_node(d.node))
           [] d.variant = "ActionResult" -> Pair("success", JBool(d.success))
           [] d.variant = "Nodes" -> Pair("nodes", ser_nodes(d.nodes)))

\* ErrorCode, snake_case.
ser_error_code(code) ==
    JStr(CASE code = "NotFound" -> << "not_found" >>
           [] code = "PermissionDenied" -> << "permission_denied" >>
           [] code = "Transient" -> << "transient" >>
           [] code = "InvalidAction" -> << "invalid_action" >>
           [] code = "Internal" -> << "internal" >>)

\* Response: the tag "status" in snake_case, then the field of the variant.
ser_response(r) ==
    IF r.status = "success"
    THEN Pair("status", JStr(<< "success" >>))
            @@ Pair("result", ser_response_data(r.result))
    ELSE Pair("status", JStr(<< "error" >>))
            @@ Pair("error", JObj(Pair("code", ser_error_code(r.error.code))
                                  @@ Pair("message", JStr(r.error.message))))

\* serde_json::to_string(&Message): the envelope's field, then the flattened
\* content, a Request or a Response.
to_string(message) ==
    JObj(Pair("protocol_version", JStr(message.protocol_version))
         @@ IF IsRequest(message.content)
            THEN ser_request(message.content.request)
            ELSE ser_response(message.content.response))

-----------------------------------------------------------------------------
(* server.rs: the handlers *)

(***************************************************************************)
(* A handler's outcome is the Response it returns and the provider calls   *)
(* it made, in order.                                                      *)
(***************************************************************************)
Outcome(response, calls) == [response |-> response, calls |-> calls]

\* handle_query_tree: max_depth and max_nodes are not read.  root is what
\* provider.get_root() returned.
query_tree_response(root) ==
    Outcome(IF root.ok THEN Success(Tree(<< root.val >>))
            ELSE Error(ErrorInfo("Internal", << "Failed to get root: " >> \o root.err)),
            << Call("get_root", << >>, root) >>)

\* A handler that enforces max_nodes: a limit of 0 leaves no room for the root.
handle_query_tree_limited(p, max_depth, max_nodes) ==
    IF max_nodes = Some(0) THEN Outcome(Success(Tree(<< >>)), << >>)
    ELSE query_tree_response(get_root(p))

\* handle_query_tree
handle_query_tree(p, max_depth, max_nodes) == query_tree_response(get_root(p))

\* A handler that reports a resolution failure as an internal error.
get_node_response_internal(node_id, found) ==
    Outcome(IF found.ok THEN Success(NodeData(found.val))
            ELSE Error(ErrorInfo("Internal", << "Node not found: " >> \o found.err)),
            << Call("get_node", << node_id >>, found) >>)

\* handle_get_node; found is what provider.get_node(node_id) returned.
get_node_response(node_id, found) ==
    Outcome(IF found.ok THEN Success(NodeData(found.val))
            ELSE Error(ErrorInfo("NotFound", << "Node not found: " >> \o found.err)),
            << Call("get_node", << node_id >>, found) >>)
handle_get_node(p, node_id) == get_node_response(node_id, get_node(p, node_id))

\* A handler that reports a provider failure as ActionResult{success: false}.
perform_action_response_unsuccessful(node_id, action, done) ==
    Outcome(Success(ActionResult(done.ok)),
            << Call("perform_action", << node_id, action >>, done) >>)

\* A handler that looks the node up first and forwards only an action the
\* node advertises.
handle_perform_action_checked(p, node_id, action, ax) ==
    LET found == get_node(p, node_id)
        looked == << Call("get_node", << node_id >>, found) >>
    IN  IF found.ok /\ \E i \in 1..Len(found.val.actions) : found.val.actions[i] = action
        THEN Outcome(Success(ActionResult(perform_action(p, node_id, action, ax).ok)),
                     Append(looked, Call("perform_action", << node_id, action >>,
                                         perform_action(p, node_id, action, ax))))
        ELSE Outcome(Error(ErrorInfo("InvalidAction", << "Failed to perform action: " >>)),
                     looked)

\* A handler that reports a refusal of the platform as permission_denied.
perform_action_response_denied(node_id, action, done) ==
    Outcome(IF done.ok THEN Success(ActionResult(TRUE))
            ELSE Error(ErrorInfo(IF done.err = << "Failed to perform action: error code" >>
                                 THEN "PermissionDenied"
                                 ELSE "InvalidAction",
                                 << "Failed to perform action: " >> \o done.err)),
            << Call("perform_action", << node_id, action >>, done) >>)

\* handle_perform_action; done is what provider.perform_action returned.
perform_action_response(node_id, action, done) ==
    Outcome(IF done.ok THEN Success(ActionResult(TRUE))
            ELSE Error(ErrorInfo("InvalidAction",
                                 << "Failed to perform action: " >> \o done.err)),
            << Call("perform_action", << node_id, action >>, done) >>)
handle_perform_action(p, node_id, action, ax) ==
    perform_action_response(node_id, action, perform_action(p, node_id, action, ax))

\* A check that accepts only the server's own version.
handle_initialize_exact(protocol_version) ==
    IF IsSome(protocol_version) /\ Unwrap(protocol_version) # PROTOCOL_VERSION
    THEN Outcome(Error(ErrorInfo("Internal",
                    << "Unsupported protocol version: " >> \o Unwrap(protocol_version))),
                 << >>)
    ELSE Outcome(Success([variant |-> "Initialize",
                          protocol_version |-> PROTOCOL_VERSION,
                          capabilities |-> [tools |-> Some([list_changed |-> FALSE])],
                          server_info |-> [name |-> << "accessibility_mcp" >>]]),
                 << >>)

\* handle_initialize
handle_initialize(protocol_version) ==
    IF IsSome(protocol_version) /\ ~starts_with(Unwrap(protocol_version), << "1", "." >>)
    THEN Outcome(Error(ErrorInfo("Internal",
                    << "Unsupported protocol version: " >> \o Unwrap(protocol_version))),
                 << >>)
    ELSE Outcome(Success([variant |-> "Initialize",
                          protocol_version |-> PROTOCOL_VERSION,
                          capabilities |-> [tools |-> Some([list_changed |-> FALSE])],
                          server_info |-> [name |-> << "accessibility_mcp" >>]]),
                 << >>)

\* One Tool of the catalogue: its name and the required keys of its schema.
Tool(name, required) == [name |-> name, required |-> required]

\* A catalogue in alphabetical order.
handle_tools_list_sorted ==
    Outcome(Success([variant |-> "Tools",
                     tools |-> << Tool("find_by_name", << "name" >>),
                                  Tool("get_node", << "node_id" >>),
                                  Tool("perform_action", << "node_id", "action" >>),
                                  Tool("query_tree", << >>) >>]),
            << >>)

\* handle_tools_list
handle_tools_list ==
    Outcome(Success([variant |-> "Tools",
                     tools |-> << Tool("query_tree", << >>),
                                  Tool("get_node", << "node_id" >>),
                                  Tool("perform_action", << "node_id", "action" >>),
                                  Tool("find_by_name", << "name" >>) >>]),
            << >>)

-----------------------------------------------------------------------------
(* server.rs: handle_find_by_name, one loop iteration at a time *)

\* const MAX_NODES: usize = 1000
MAX_NODES == 1000

\* A limit check that lets one more entry through.
limit_reached_late(checked) == checked > MAX_NODES

\* if nodes_checked >= MAX_NODES { break }
limit_reached(checked) == checked >= MAX_NODES

\* A search without the visited check.
visited_insert_always(seen, id) == TRUE

\* visited.insert(node.id) returns true for an identifier not yet in the set.
visited_insert(seen, id) == id \notin seen

\* A match rule that compares case-sensitively.
name_matches_exact(node, name) ==
    /\ IsSome(node.name)
    /\ contains(Unwrap(node.name), name)

\* The match rule: the node has a name and its lowercased name contains the
\* lowercased query.
name_matches(node, name) ==
    /\ IsSome(node.name)
    /\ contains(to_lowercase(Unwrap(node.name)), to_lowercase(name))

\* A loop that gives up a node's children when one of them fails to resolve.
resolved_children_or_none(p, node) ==
    IF \A i \in 1..Len(node.children) : get_node(p, node.children[i]).ok
    THEN node.children
    ELSE << >>

\* A loop that walks the child list from its end.
resolved_children_reversed(p, node) ==
    LET n == Len(node.children)
    IN  SelectSeq([i \in 1..n |-> node.children[n + 1 - i]],
                  LAMBDA child_id : get_node(p, child_id).ok)

\* for child_id in &node.children: the children the provider resolves, in
\* the order of the child list, each by its identifier; a child that fails to
\* resolve is skipped.
resolved_children(p, node) ==
    SelectSeq(node.children, LAMBDA child_id : get_node(p, child_id).ok)

\* The get_node calls of that loop, one per child reference.
children_calls(p, node) ==
    [i \in 1..Len(node.children) |->
        Call("get_node", << node.children[i] >>, get_node(p, node.children[i]))]

-----------------------------------------------------------------------------
(* server.rs: handle_request *)

\* A version check that accepts every 1.x, as handle_initialize does.
version_mismatch_major(message) ==
    ~starts_with(message.protocol_version, << "1", "." >>)

\* if message.protocol_version != Message::PROTOCOL_VERSION
version_mismatch(message) == message.protocol_version # PROTOCOL_VERSION

\* What handle_request does with a line: it returns a Message, or it enters
\* handle_find_by_name, whose loop the actions below run.
Reply(message, calls) == [route |-> "reply", response |-> message, calls |-> calls]
Routed(o) == Reply(MessageResponse(o.response), o.calls)
EnterFind(name) == [route |-> "find_by_name", name |-> name]

\* The match over the Request.
route(p, request, ax) ==
    CASE request.method = "QueryTree" ->
            Routed(handle_query_tree(p, request.max_depth, request.max_nodes))
      [] request.method = "GetNode" -> Routed(handle_get_node(p, request.node_id))
      [] request.method = "PerformAction" ->
            Routed(handle_perform_action(p, request.node_id, request.action, ax))
      [] request.method = "FindByName" -> EnterFind(request.name)
      [] request.method = "Initialize" ->
            Routed(handle_initialize(request.protocol_version))
      [] request.method = "ToolsList" -> Routed(handle_tools_list)

\* A dispatcher that routes without checking the version.
dispatch_unversioned(p, m, ax) ==
    IF ~m.ok
    THEN Reply(MessageError("Internal", << "Invalid JSON: " >> \o m.err), << >>)
    ELSE IF IsResponse(m.val.content)
    THEN Reply(MessageError("Internal", << "Expected request, got response" >>), << >>)
    ELSE route(p, m.val.content.request, ax)

\* A dispatcher that hands a received response back to its sender.
dispatch_echo(p, m, ax) ==
    IF ~m.ok
    THEN Reply(MessageError("Internal", << "Invalid JSON: " >> \o m.err), << >>)
    ELSE IF version_mismatch(m.val)
    THEN Reply(MessageError("Internal",
                  << "Unsupported protocol version: " >> \o m.val.protocol_version),
               << >>)
    ELSE IF IsResponse(m.val.content)
    THEN Reply(m.val, << >>)
    ELSE route(p, m.val.content.request, ax)

\* handle_request after the parse: m is what serde_json::from_str returned.
\* A parse error is answered first, then the version is checked, then the
\* request is extracted and routed.
dispatch(p, m, ax) ==
    IF ~m.ok
    THEN Reply(MessageError("Internal", << "Invalid JSON: " >> \o m.err), << >>)
    ELSE IF version_mismatch(m.val)
    THEN Reply(MessageError("Internal",
                  << "Unsupported protocol version: " >> \o m.val.protocol_version),
               << >>)
    ELSE IF IsResponse(m.val.content)
    THEN Reply(MessageError("Internal", << "Expected request, got response" >>), << >>)
    ELSE route(p, m.val.content.request, ax)

\* handle_request
handle_request(p, line, ax) == dispatch(p, from_str(line), ax)

-----------------------------------------------------------------------------
(* The lines a client may send *)

Version11 == << "1", ".", "1" >>
Version20 == << "2", ".", "0" >>
VersionEmpty == << >>
Versions == {PROTOCOL_VERSION, Version11, Version20, VersionEmpty}

\* The envelope's key: missing, or a string.
VersionFields ==
    {EmptyObj} \cup {Pair("protocol_version", JStr(v)) : v \in Versions}

Method(m) == Pair("method", JStr(<< m >>))

\* The queries of find_by_name.
Queries == { << >>, << "o", "k" >>, << "O", "K" >>, << "K" >> }

\* The node identifiers a client names.
RequestIds == {MissingId, 1, 2, 3}

\* The actions a client asks for, as JSON.
JAction(t) == JObj(Pair("type", JStr(<< t >>)))
JActions ==
    { JAction("press"),
      JObj(Pair("type", JStr(<< "set_value" >>)) @@ Pair("value", JStr(Nameok))),
      JObj(Pair("type", JStr(<< "scroll" >>)) @@ Pair("x", JNum(0)) @@ Pair("y", JNum(1))),
      JAction("fly") }

\* max_depth and max_nodes: missing, null or a number.
DepthFields ==
    {EmptyObj} \cup {Pair("max_depth", v) : v \in {JNull, JNum(0), JNum(1), JNum(5)}}
NodesFields ==
    {EmptyObj} \cup {Pair("max_nodes", v) : v \in {JNum(0), JNum(100)}}

QueryTreeContents == {Method("query_tree") @@ d @@ n : d \in DepthFields, n \in NodesFields}
GetNodeContents ==
    {Method("get_node") @@ Pair("node_id", JStr(id)) : id \in RequestIds}
    \cup {Method("get_node"), Method("get_node") @@ Pair("node_id", JNum(1))}
PerformActionContents ==
    {Method("perform_action") @@ Pair("node_id", JStr(id)) @@ Pair("action", a) :
        id \in {MissingId, 1}, a \in JActions}
    \cup {Method("perform_action") @@ Pair("node_id", JStr(1))}
FindByNameContents ==
    {Method("find_by_name") @@ Pair("name", JStr(q)) : q \in Queries}
    \cup {Method("find_by_name")}
ResponseContents ==
    { Pair("status", JStr(<< "success" >>))
        @@ Pair("result", JObj(Pair("success", JBool(TRUE)))),
      Pair("status", JStr(<< "error" >>))
        @@ Pair("error", JObj(Pair("code", JStr(<< "internal" >>))
                              @@ Pair("message", JStr(<< "x" >>)))),
      Pair("status", JStr(<< "success" >>)) }
OtherContents ==
    { EmptyObj, Method("bogus"), Method("initialize"), Method("tools_list"),
      Pair("method", JNum(1)) }

Contents ==
    QueryTreeContents \cup GetNodeContents \cup PerformActionContents
    \cup FindByNameContents \cup ResponseContents \cup OtherContents

Lines ==
    {JObj(v @@ c) : v \in VersionFields, c \in Contents}
    \cup { Garbage, JArr(<< >>), JStr(PROTOCOL_VERSION),
           JObj(Pair("protocol_version", JNum(1)) @@ Method("tools_list")) }

-----------------------------------------------------------------------------
(* The dispatcher as a state machine *)

VARIABLES
    provider,       \* the provider the server was started with
    pc,             \* "idle" (waiting for a line), a place inside
                    \* handle_find_by_name, or "respond" (handle_request returned)
    line,           \* Option: the line of the request being (or last) handled
    response,       \* Option: the Message handle_request returned for it
    calls,          \* the provider calls made for it, in order
    name,           \* find_by_name: the query
    to_visit,       \* find_by_name: the stack of nodes, each by its identifier
                    \* (the Node pushed is the one the provider returned for it)
    visited,        \* find_by_name: the set of identifiers seen
    matches,        \* find_by_name: the matching nodes
    nodes_checked,  \* find_by_name: the count of popped entries
    tested,         \* the identifiers match-tested by this search, in order
    expanded,       \* the identifiers whose children this search fetched
    transport,      \* config.transport: "stdio" or "unix_socket"
    server,         \* the server task: "starting" (spawned, before its
                    \* loop), "listening" (in its loop) or "stopped"
    handle,         \* the McpHandle: "none" (not yet returned), "held",
                    \* "shutdown" (inside shutdown(), before self goes out
                    \* of scope) or "dropped"
    shutdown_tx,    \* McpHandle.shutdown_tx: Option of the oneshot sender
    signals,        \* the number of sends on the shutdown channel
    accepted,       \* unix socket: the number of connections accepted
    socket_file,    \* unix socket: the file at socket_path exists
    served,         \* history: for each response written so far, whether its
                    \* request met a provider failure
    input,          \* a value handed to a function of the protocol
    encoded,        \* Option: what serde_json::to_string made of input
    output,         \* Option: what the function returned
    started,        \* start_mcp_server: "no" (not called), "spawned" (the
                    \* server task is spawned), "ok" or "err" (its result)
    announced,      \* "[MCP] listening on ..." was printed
    closed,         \* unix socket: the connections whose handler returned
    conn,           \* the stream the line was read from: 0 is stdin, c the
                    \* c-th accepted connection
    wire,           \* history: the lines read and the responses written,
                    \* each with its stream
    element_cache,  \* MacOSProvider.element_cache: the HashMap from the
                    \* string of a NodeId to the element it stands for
    emitted,        \* history: the NodeIds the provider has returned, as
                    \* the id of a Node or in its children
    tasks,          \* unix socket: for each connection, the locals of the
                    \* handler task spawned for it
    servers,        \* for each start_mcp_server call on one socket path, its
                    \* server task and its handle
    path            \* Option: the socket the file at that path belongs to
                    \* (0: a file left by an earlier process)

lifecycle == << transport, server, handle, shutdown_tx, signals, accepted,
                socket_file >>

applied == << input, encoded, output >>

startup == << started, announced >>

streams == << closed, conn, wire >>

platform == << element_cache, emitted >>

shared == << tasks, servers, path >>

vars == << provider, pc, line, response, calls, name, to_visit, visited,
           matches, nodes_checked, tested, expanded, lifecycle, served, applied,
           startup, streams, platform, shared >>

search == << name, to_visit, visited, matches, nodes_checked, tested, expanded >>

\* start_mcp_server has returned the handle; no stream is recorded and the
\* provider has not been called.
Started ==
    /\ started = "ok"
    /\ announced = TRUE
    /\ closed = {}
    /\ conn = 0
    /\ wire = << >>
    /\ element_cache = << >>
    /\ emitted = {}
    /\ tasks = << >>
    /\ servers = << >>
    /\ path = None

\* The handle is held and the stdio server is in its loop.
Listening ==
    /\ Started
    /\ transport = "stdio"
    /\ server = "listening"
    /\ handle = "held"
    /\ shutdown_tx = Some("tx")
    /\ signals = 0
    /\ accepted = 0
    /\ socket_file = FALSE

\* No function of the protocol is being applied.
NotApplied ==
    /\ input = None
    /\ encoded = None
    /\ output = None

\* The stream the dispatcher reads from is open: stdin while the stdio loop
\* runs, or an accepted connection.
Reading ==
    IF transport = "stdio" THEN server = "listening" ELSE accepted > 0

\* The locals of handle_find_by_name before a search.
NoSearch ==
    /\ name' = << >>
    /\ to_visit' = << >>
    /\ visited' = {}
    /\ matches' = << >>
    /\ nodes_checked' = 0
    /\ tested' = << >>
    /\ expanded' = << >>

Init ==
    /\ provider \in Providers
    /\ pc = "idle"
    /\ line = None
    /\ response = None
    /\ calls = << >>
    /\ name = << >>
    /\ to_visit = << >>
    /\ visited = {}
    /\ matches = << >>
    /\ nodes_checked = 0
    /\ tested = << >>
    /\ expanded = << >>
    /\ Listening
    /\ served = << >>
    /\ NotApplied

\* The platform is asked for an answer only by a perform_action line.
PlatformAnswers(l) ==
    IF IsObj(l) /\ Has(l.obj, "method") /\ l.obj["method"] = JStr(<< "perform_action" >>)
    THEN AXErrors
    ELSE {K_AX_ERROR_SUCCESS}

\* handle_request returned o for the line l without a search.
Answered(l, o) ==
    /\ o.route = "reply"
    /\ line' = Some(l)
    /\ response' = Some(o.response)
    /\ calls' = o.calls

\* handle_request for a line it answers without a search.
HandleRequest(l, ax) ==
    /\ pc = "idle"
    /\ Reading
    /\ Answered(l, handle_request(provider, l, ax))
    /\ pc' = "respond"
    /\ NoSearch
    /\ UNCHANGED << provider, shared, platform, startup, streams, lifecycle,
                    served, applied >>

\* A search that takes a missing root for an empty tree.
EnteredOrEmpty(l, o, root) ==
    /\ o.route = "find_by_name"
    /\ line' = Some(l)
    /\ calls' = << Call("get_root", << >>, root) >>
    /\ name' = o.name
    /\ to_visit' = IF root.ok THEN << root.val.id >> ELSE << >>
    /\ response' = None
    /\ pc' = "find_by_name"

\* handle_find_by_name up to its loop: root is what provider.get_root()
\* returned; a failure is answered at once.
Entered(l, o, root) ==
    /\ o.route = "find_by_name"
    /\ line' = Some(l)
    /\ calls' = << Call("get_root", << >>, root) >>
    /\ IF root.ok
       THEN /\ name' = o.name
            /\ to_visit' = << root.val.id >>
            /\ response' = None
            /\ pc' = "find_by_name"
       ELSE /\ name' = << >>
            /\ to_visit' = << >>
            /\ response' = Some(MessageResponse(Error(ErrorInfo("Internal",
                                 << "Failed to get root: " >> \o root.err))))
            /\ pc' = "respond"

\* handle_request routes a FindByName: handle_find_by_name gets the root
\* and, unless that fails, sets up the search.
FindByNameEnter(l) ==
    /\ pc = "idle"
    /\ Reading
    /\ Entered(l, handle_request(provider, l, K_AX_ERROR_SUCCESS), get_root(provider))
    /\ visited' = {}
    /\ matches' = << >>
    /\ nodes_checked' = 0
    /\ tested' = << >>
    /\ expanded' = << >>
    /\ UNCHANGED << provider, shared, platform, startup, streams, lifecycle,
                    served, applied >>

\* One turn of  while let Some(node) = to_visit.pop() { ... }
FindByNameLoop ==
    /\ pc = "find_by_name"
    /\ IF to_visit = << >>
       THEN /\ pc' = "find_by_name_return"
            /\ UNCHANGED << calls, search >>
       ELSE LET node == NodeOf(provider, to_visit[Len(to_visit)])
                rest == SubSeq(to_visit, 1, Len(to_visit) - 1)
            IN  IF limit_reached(nodes_checked)
                THEN /\ pc' = "find_by_name_return"
                     /\ to_visit' = rest
                     /\ UNCHANGED << calls, name, visited, matches, nodes_checked,
                                     tested, expanded >>
                ELSE /\ pc' = "find_by_name"
                     /\ nodes_checked' = nodes_checked + 1
                     /\ IF ~visited_insert(visited, node.id)
                        THEN /\ to_visit' = rest
                             /\ UNCHANGED << calls, name, visited, matches,
                                             tested, expanded >>
                        ELSE /\ visited' = visited \cup {node.id}
                             /\ tested' = Append(tested, node.id)
                             /\ matches' = IF name_matches(node, name)
                                           THEN Append(matches, node)
                                           ELSE matches
                             /\ expanded' = Append(expanded, node.id)
                             /\ to_visit' = rest \o resolved_children(provider, node)
                             /\ calls' = calls \o children_calls(provider, node)
                             /\ UNCHANGED name
    /\ UNCHANGED << provider, shared, platform, startup, streams, line,
                    response, lifecycle, served, applied >>

\* A return that reports a search cut short by the limit as an error.
FindByNameReturnStrict ==
    /\ pc = "find_by_name_return"
    /\ response' = Some(IF nodes_checked >= MAX_NODES
                        THEN MessageError("Internal", << "Search limit reached" >>)
                        ELSE MessageSuccess(Nodes(matches)))
    /\ pc' = "respond"
    /\ UNCHANGED << provider, shared, platform, startup, streams, line, calls,
                    search, lifecycle, served, applied >>

\* handle_find_by_name returns and handle_request wraps the Response.
FindByNameReturn ==
    /\ pc = "find_by_name_return"
    /\ response' = Some(MessageResponse(Success(Nodes(matches))))
    /\ pc' = "respond"
    /\ UNCHANGED << provider, shared, platform, startup, streams, line, calls,
                    search, lifecycle, served, applied >>

\* A provider call of the request being answered returned Err.
ProviderFailed == \E i \in 1..Len(calls) : ~calls[i].ok

\* A loop that gives up after answering a request that met a provider failure.
WrittenUnlessFailed(history) ==
    /\ pc = "respond"
    /\ pc' = "idle"
    /\ line' = None
    /\ response' = None
    /\ calls' = << >>
    /\ NoSearch
    /\ served' = history
    /\ server' = IF ProviderFailed THEN "stopped" ELSE server
    /\ UNCHANGED << provider, shared, platform, startup, streams, transport,
                    handle, shutdown_tx, signals, accepted, socket_file,
                    applied >>

\* The read loop writes the response and clears the line for the next read;
\* history is the record of the responses written by then.
Written(history) ==
    /\ pc = "respond"
    /\ pc' = "idle"
    /\ line' = None
    /\ response' = None
    /\ calls' = << >>
    /\ NoSearch
    /\ served' = history
    /\ UNCHANGED << provider, shared, platform, startup, streams, lifecycle,
                    applied >>

\* The write of a response, uncounted.
WriteResponse == Written(served)

\* A line is read only between two requests.
Next ==
    \/ pc = "idle" /\ \E l \in Lines : \E ax \in PlatformAnswers(l) : HandleRequest(l, ax)
    \/ pc = "idle" /\ \E l \in Lines : FindByNameEnter(l)
    \/ FindByNameLoop
    \/ FindByNameReturn
    \/ WriteResponse

Spec == Init /\ [][Next]_vars

\* handle_find_by_name awaits nothing inside its loop: once entered, each
\* iteration and the return are taken.
LiveSpec ==
    /\ Init
    /\ [][Next]_vars
    /\ WF_vars(FindByNameLoop)
    /\ WF_vars(FindByNameReturn)

-----------------------------------------------------------------------------
(* server.rs: the McpHandle, the shutdown channel and the server task *)

\* The most connections the accept loop takes here.
MaxAccepted == 2

\* The most responses the history remembers.
MaxServed == 2

\* A take that leaves the sender in place.
take_copy(option) == [value |-> option, left |-> option]

\* Option::take: the value moves out and None is left behind.
take(option) == [value |-> option, left |-> None]

\* if let Some(tx) = self.shutdown_tx.take() { let _ = tx.send(()); }
\* where t is what take returned.
Fire(t) ==
    /\ shutdown_tx' = t.left
    /\ signals' = IF IsSome(t.value) THEN signals + 1 ELSE signals

\* McpHandle::shutdown(mut self), up to the end of its body.
Shutdown ==
    /\ handle = "held"
    /\ handle' = "shutdown"
    /\ Fire(take(shutdown_tx))
    /\ UNCHANGED << provider, shared, platform, startup, streams, pc, line,
                    response, calls, search, transport, server, accepted,
                    socket_file, served, applied >>

\* Drop for McpHandle: the handle goes out of scope, either where its owner
\* lets go of it or at the end of shutdown(), which consumed it.
Drop ==
    /\ handle \in {"held", "shutdown"}
    /\ handle' = "dropped"
    /\ Fire(take(shutdown_tx))
    /\ UNCHANGED << provider, shared, platform, startup, streams, pc, line,
                    response, calls, search, transport, server, accepted,
                    socket_file, served, applied >>

\* The receiver of the oneshot channel is ready.
Signalled == signals > 0

\* A select whose shutdown branch is never taken.
SelectShutdownNever ==
    /\ server = "listening"
    /\ Signalled
    /\ UNCHANGED << provider, shared, platform, startup, streams, pc, line,
                    response, calls, search, lifecycle, served, applied >>

\* A shutdown branch that is taken wherever the loop is.
SelectShutdownAnywhere ==
    /\ server = "listening"
    /\ Signalled
    /\ server' = "stopped"
    /\ socket_file' = FALSE
    /\ UNCHANGED << provider, shared, platform, startup, streams, pc, line,
                    response, calls, search, transport, handle, shutdown_tx,
                    signals, accepted, served, applied >>

\* A shutdown branch that leaves the socket file behind.
SelectShutdownKeepsFile ==
    /\ server = "listening"
    /\ Signalled
    /\ transport = "stdio" => pc = "idle"
    /\ server' = "stopped"
    /\ UNCHANGED << provider, shared, platform, startup, streams, pc, line,
                    response, calls, search, transport, handle, shutdown_tx,
                    signals, accepted, socket_file, served, applied >>

\* tokio::select!, the branch  _ = &mut shutdown_rx : the stdio loop is at
\* the select between two requests; the accept loop is at it whenever it
\* runs, and removes the socket file before it breaks.
SelectShutdown ==
    /\ server = "listening"
    /\ Signalled
    /\ transport = "stdio" => pc = "idle"
    /\ server' = "stopped"
    /\ socket_file' = FALSE
    /\ UNCHANGED << provider, shared, platform, startup, streams, pc, line,
                    response, calls, search, transport, handle, shutdown_tx,
                    signals, accepted, served, applied >>

\* run_stdio_server: read_line returns Ok(0) or Err.
ReadEof ==
    /\ transport = "stdio"
    /\ server = "listening"
    /\ pc = "idle"
    /\ server' = "stopped"
    /\ UNCHANGED << provider, shared, platform, startup, streams, pc, line,
                    response, calls, search, transport, handle, shutdown_tx,
                    signals, accepted, socket_file, served, applied >>

\* run_stdio_server: a write of the response fails and the loop breaks.
WriteFails ==
    /\ transport = "stdio"
    /\ pc = "respond"
    /\ pc' = "idle"
    /\ line' = None
    /\ response' = None
    /\ calls' = << >>
    /\ NoSearch
    /\ server' = "stopped"
    /\ UNCHANGED << provider, shared, platform, startup, streams, transport,
                    handle, shutdown_tx, signals, accepted, socket_file,
                    served, applied >>

\* run_unix_socket_server: listener.accept() returns a stream and its
\* handler is spawned.
Accept ==
    /\ transport = "unix_socket"
    /\ server = "listening"
    /\ accepted < MaxAccepted
    /\ accepted' = accepted + 1
    /\ UNCHANGED << provider, shared, platform, startup, streams, pc, line,
                    response, calls, search, transport, server, handle,
                    shutdown_tx, signals, socket_file, served, applied >>

\* The write of a response, remembered: the history notes whether the
\* request met a provider failure.
WriteCounted ==
    Written(IF Len(served) < MaxServed THEN Append(served, ProviderFailed) ELSE served)

\* The providers of the server runs: get_root fails; a root without
\* children; a root whose children are an unregistered identifier and n2.
ServerProviders ==
    {p \in SmallProviders :
        /\ p.nm = << Some(NameOK), None >>
        /\ p.root_ok => /\ p.ch[2] = << >>
                        /\ p.ch[1] \in {<< >>, << MissingId, 2 >>}}

\* The lines of the server runs, all of version "1.0".
ServerLines ==
    {JObj(Pair("protocol_version", JStr(PROTOCOL_VERSION)) @@ c) :
        c \in { Method("tools_list"),
                Method("query_tree"),
                Method("get_node") @@ Pair("node_id", JStr(MissingId)),
                Method("get_node") @@ Pair("node_id", JStr(1)),
                Method("perform_action") @@ Pair("node_id", JStr(1))
                    @@ Pair("action", JAction("press")),
                Method("find_by_name") @@ Pair("name", JStr(<< "o", "k" >>)) }}
    \cup {Garbage}

\* start_mcp_server returned the handle; the stdio task is in its loop, or
\* the unix socket task has bound its listener.
ServerInit ==
    /\ provider \in ServerProviders
    /\ pc = "idle"
    /\ line = None
    /\ response = None
    /\ calls = << >>
    /\ name = << >>
    /\ to_visit = << >>
    /\ visited = {}
    /\ matches = << >>
    /\ nodes_checked = 0
    /\ tested = << >>
    /\ expanded = << >>
    /\ transport \in {"stdio", "unix_socket"}
    /\ server = "listening"
    /\ handle = "held"
    /\ shutdown_tx = Some("tx")
    /\ signals = 0
    /\ accepted = 0
    /\ socket_file = (transport = "unix_socket")
    /\ served = << >>
    /\ NotApplied
    /\ Started

ServerNext ==
    \/ pc = "idle"
        /\ \E l \in ServerLines : \E ax \in PlatformAnswers(l) : HandleRequest(l, ax)
    \/ pc = "idle" /\ \E l \in ServerLines : FindByNameEnter(l)
    \/ FindByNameLoop
    \/ FindByNameReturn
    \/ WriteCounted
    \/ WriteFails
    \/ ReadEof
    \/ Accept
    \/ SelectShutdown
    \/ Shutdown
    \/ Drop

ServerSpec == ServerInit /\ [][ServerNext]_vars

\* tokio::select! polls its ready branches in random order, so the shutdown
\* branch is taken if it is ready again and again; a handler awaits nothing
\* that blocks, so a request once read is answered and control returns to
\* the select.
FairServerSpec ==
    /\ ServerInit
    /\ [][ServerNext]_vars
    /\ WF_vars(FindByNameLoop)
    /\ WF_vars(FindByNameReturn)
    /\ WF_vars(WriteCounted)
    /\ SF_vars(SelectShutdown)

-----------------------------------------------------------------------------
(* server.rs: start_mcp_server, the server tasks and their streams *)

\* The most events the history of the streams remembers.
MaxWire == 4

\* A line that is empty once trimmed.
Blank == [blank |-> TRUE]

\* let trimmed = line.trim(); trimmed.is_empty()
is_empty(l) == "blank" \in DOMAIN l

\* An entry of the history: a line read from ("in"), or a response written
\* to ("out"), the stream c, or the end of its loop ("end").
Event(c, dir, text) == [conn |-> c, dir |-> dir, text |-> text]

\* Why a loop broke: read_line returned Ok(0) or Err, or a write failed.
Ends == {"eof", "read error"}
End(how) == [end |-> how]

\* The streams a read loop is reading: stdin while run_stdio_server is in
\* its loop, and each accepted connection until its handler returns.
Readers ==
    IF transport = "stdio"
    THEN IF server = "listening" THEN {0} ELSE {}
    ELSE (1..accepted) \ closed

\* A start that spawns the server task whatever create_provider returned.
StartAnyway(created) ==
    /\ started = "no"
    /\ started' = IF created /\ transport # "tcp" THEN "spawned" ELSE "err"
    /\ server' = "starting"
    /\ UNCHANGED << provider, shared, platform, pc, line, response, calls,
                    search, transport, handle, shutdown_tx, signals, accepted,
                    socket_file, served, applied, announced, streams >>

\* start_mcp_server up to the spawn of the server task: created tells
\* whether create_provider() returned Ok; its Err is returned by `?`, and
\* the Tcp transport bails out.
Start(created) ==
    /\ started = "no"
    /\ IF created /\ transport # "tcp"
       THEN /\ started' = "spawned"
            /\ server' = "starting"
       ELSE /\ started' = "err"
            /\ server' = server
    /\ UNCHANGED << provider, shared, platform, pc, line, response, calls,
                    search, transport, handle, shutdown_tx, signals, accepted,
                    socket_file, served, applied, announced, streams >>

\* start_mcp_server after the spawn: it prints "[MCP] listening on ..." and
\* returns the handle that holds the sender.
StartReturn ==
    /\ started = "spawned"
    /\ started' = "ok"
    /\ announced' = TRUE
    /\ handle' = "held"
    /\ shutdown_tx' = Some("tx")
    /\ UNCHANGED << provider, shared, platform, pc, line, response, calls,
                    search, transport, server, signals, accepted, socket_file,
                    served, applied, streams >>

\* run_stdio_server reaches its loop.
StdioEnter ==
    /\ transport = "stdio"
    /\ server = "starting"
    /\ server' = "listening"
    /\ UNCHANGED << provider, shared, platform, pc, line, response, calls,
                    search, transport, handle, shutdown_tx, signals, accepted,
                    socket_file, served, applied, startup, streams >>

\* A bind whose failure is not noticed: the task goes on to its loop.
BindOrNot(bound) ==
    /\ transport = "unix_socket"
    /\ server = "starting"
    /\ server' = "listening"
    /\ socket_file' = bound
    /\ UNCHANGED << provider, shared, platform, pc, line, response, calls,
                    search, transport, handle, shutdown_tx, signals, accepted,
                    served, applied, startup, streams >>

\* run_unix_socket_server up to its loop: it removes an old socket file and
\* binds the listener, which creates the file; if the bind fails the task
\* returns.
Bind(bound) ==
    /\ transport = "unix_socket"
    /\ server = "starting"
    /\ server' = IF bound THEN "listening" ELSE "stopped"
    /\ socket_file' = bound
    /\ UNCHANGED << provider, shared, platform, pc, line, response, calls,
                    search, transport, handle, shutdown_tx, signals, accepted,
                    served, applied, startup, streams >>

\* listener.accept() returns Err: the error is logged and the loop goes on.
AcceptFails ==
    /\ transport = "unix_socket"
    /\ server = "listening"
    /\ UNCHANGED vars

\* read_line returned l, not blank, on the stream c, and handle_request
\* answered it without a search.
Serve(c, l, ax) ==
    /\ pc = "idle"
    /\ c \in Readers
    /\ Len(wire) + 2 <= MaxWire
    /\ ~is_empty(l)
    /\ Answered(l, handle_request(provider, l, ax))
    /\ pc' = "respond"
    /\ NoSearch
    /\ conn' = c
    /\ wire' = Append(wire, Event(c, "in", l))
    /\ UNCHANGED << provider, shared, platform, lifecycle, served, applied,
                    startup, closed >>

\* read_line returned l, not blank, on the stream c, and handle_request
\* entered handle_find_by_name.
ServeFind(c, l) ==
    /\ pc = "idle"
    /\ c \in Readers
    /\ Len(wire) + 2 <= MaxWire
    /\ ~is_empty(l)
    /\ Entered(l, handle_request(provider, l, K_AX_ERROR_SUCCESS), get_root(provider))
    /\ visited' = {}
    /\ matches' = << >>
    /\ nodes_checked' = 0
    /\ tested' = << >>
    /\ expanded' = << >>
    /\ conn' = c
    /\ wire' = Append(wire, Event(c, "in", l))
    /\ UNCHANGED << provider, shared, platform, lifecycle, served, applied,
                    startup, closed >>

\* A read loop that answers a blank line like any other.
ReadBlankAnswered(c) ==
    /\ pc = "idle"
    /\ c \in Readers
    /\ Len(wire) + 2 <= MaxWire
    /\ line' = Some(Blank)
    /\ response' = Some(MessageError("Internal", << "Invalid JSON: " >>))
    /\ pc' = "respond"
    /\ conn' = c
    /\ wire' = Append(wire, Event(c, "in", Blank))
    /\ UNCHANGED << provider, shared, platform, calls, search, lifecycle,
                    served, applied, startup, closed >>

\* read_line returned a blank line on the stream c: continue.
ReadBlank(c) ==
    /\ pc = "idle"
    /\ c \in Readers
    /\ Len(wire) < MaxWire
    /\ wire' = Append(wire, Event(c, "in", Blank))
    /\ UNCHANGED << provider, shared, platform, pc, line, response, calls,
                    search, lifecycle, served, applied, startup, closed, conn
                    >>

\* An end of stream that ends the whole server.
ReadEndsAll(c, how) ==
    /\ c \in Readers
    /\ pc = "idle" \/ conn # c
    /\ Len(wire) < MaxWire
    /\ wire' = Append(wire, Event(c, "end", End(how)))
    /\ server' = "stopped"
    /\ closed' = closed \cup {c}
    /\ UNCHANGED << provider, shared, platform, pc, line, response, calls,
                    search, transport, handle, shutdown_tx, signals, accepted,
                    socket_file, served, applied, startup, conn >>

\* An end of stream after which the loop goes on.
ReadEndsNot(c, how) ==
    /\ c \in Readers
    /\ pc = "idle" \/ conn # c
    /\ Len(wire) < MaxWire
    /\ wire' = Append(wire, Event(c, "end", End(how)))
    /\ UNCHANGED << provider, shared, platform, pc, line, response, calls,
                    search, lifecycle, served, applied, startup, closed, conn
                    >>

\* read_line returned Ok(0) (how is "eof") or Err on the stream c, which
\* is between two requests: its loop breaks.  The stdio loop is the server
\* task; the loop of a connection is its handler.
ReadEnds(c, how) ==
    /\ c \in Readers
    /\ pc = "idle" \/ conn # c
    /\ Len(wire) < MaxWire
    /\ wire' = Append(wire, Event(c, "end", End(how)))
    /\ server' = IF c = 0 THEN "stopped" ELSE server
    /\ closed' = IF c = 0 THEN closed ELSE closed \cup {c}
    /\ UNCHANGED << provider, shared, platform, pc, line, response, calls,
                    search, transport, handle, shutdown_tx, signals, accepted,
                    socket_file, served, applied, startup, conn >>

\* A write that is lost without a trace.
WriteLineLost ==
    /\ pc = "respond"
    /\ pc' = "idle"
    /\ line' = None
    /\ response' = None
    /\ calls' = << >>
    /\ NoSearch
    /\ UNCHANGED << provider, shared, platform, lifecycle, served, applied,
                    startup, streams >>

\* The response is written to the stream the line came from (write_all,
\* the newline, flush) and the loop turns to its next read.
WriteLine ==
    /\ pc = "respond"
    /\ pc' = "idle"
    /\ line' = None
    /\ response' = None
    /\ calls' = << >>
    /\ NoSearch
    /\ wire' = Append(wire, Event(conn, "out", response[1]))
    /\ UNCHANGED << provider, shared, platform, lifecycle, served, applied,
                    startup, closed, conn >>

\* A write error that brings the whole server down.
WriteErrorStopsAll ==
    /\ pc = "respond"
    /\ pc' = "idle"
    /\ line' = None
    /\ response' = None
    /\ calls' = << >>
    /\ NoSearch
    /\ server' = "stopped"
    /\ closed' = 1..accepted
    /\ wire' = Append(wire, Event(conn, "end", End("write error")))
    /\ UNCHANGED << provider, shared, platform, transport, handle, shutdown_tx,
                    signals, accepted, socket_file, served, applied, startup,
                    conn >>

\* A write of the response fails and the loop of that stream breaks.
WriteError ==
    /\ pc = "respond"
    /\ pc' = "idle"
    /\ line' = None
    /\ response' = None
    /\ calls' = << >>
    /\ NoSearch
    /\ server' = IF conn = 0 THEN "stopped" ELSE server
    /\ closed' = IF conn = 0 THEN closed ELSE closed \cup {conn}
    /\ wire' = Append(wire, Event(conn, "end", End("write error")))
    /\ UNCHANGED << provider, shared, platform, transport, handle, shutdown_tx,
                    signals, accepted, socket_file, served, applied, startup,
                    conn >>

\* The lines of the transport runs: a request answered at once, a search,
\* a line that is not JSON, and a blank line.
TransportLines ==
    {JObj(Pair("protocol_version", JStr(PROTOCOL_VERSION)) @@ c) :
        c \in { Method("tools_list"),
                Method("find_by_name") @@ Pair("name", JStr(<< "o", "k" >>)) }}
    \cup {Garbage}

\* The provider of the transport runs: a root without children, whose name
\* the search of TransportLines matches.
TransportProviders == {p \in ServerProviders : p.root_ok /\ p.ch[1] = << >>}

\* start_mcp_server has not been called; an old socket file may be there.
TransportInit ==
    /\ provider \in TransportProviders
    /\ pc = "idle"
    /\ line = None
    /\ response = None
    /\ calls = << >>
    /\ name = << >>
    /\ to_visit = << >>
    /\ visited = {}
    /\ matches = << >>
    /\ nodes_checked = 0
    /\ tested = << >>
    /\ expanded = << >>
    /\ transport \in {"stdio", "unix_socket", "tcp"}
    /\ server = "stopped"
    /\ handle = "none"
    /\ shutdown_tx = None
    /\ signals = 0
    /\ accepted = 0
    /\ socket_file \in (IF transport = "unix_socket" THEN BOOLEAN ELSE {FALSE})
    /\ served = << >>
    /\ NotApplied
    /\ started = "no"
    /\ announced = FALSE
    /\ closed = {}
    /\ conn = 0
    /\ wire = << >>
    /\ element_cache = << >>
    /\ emitted = {}
    /\ tasks = << >>
    /\ servers = << >>
    /\ path = None

\* Requests of different connections are interleaved whole: their handlers
\* share nothing but the provider.
TransportNext ==
    \/ \E created \in BOOLEAN : Start(created)
    \/ StartReturn
    \/ StdioEnter
    \/ \E bound \in BOOLEAN : Bind(bound)
    \/ Accept
    \/ AcceptFails
    \/ pc = "idle"
        /\ \E c \in Readers : \E l \in TransportLines :
              \E ax \in PlatformAnswers(l) : Serve(c, l, ax)
    \/ pc = "idle" /\ \E c \in Readers : \E l \in TransportLines : ServeFind(c, l)
    \/ \E c \in Readers : ReadBlank(c)
    \/ \E c \in Readers : \E how \in Ends : ReadEnds(c, how)
    \/ FindByNameLoop
    \/ FindByNameReturn
    \/ WriteLine
    \/ WriteError
    \/ SelectShutdown
    \/ Shutdown
    \/ Drop

TransportSpec == TransportInit /\ [][TransportNext]_vars

-----------------------------------------------------------------------------
(* platform/macos.rs: MacOSProvider and its element cache *)

\* The elements of the application's accessibility tree are 1..MaxElements;
\* an element stands for its AXUIElementRef pointer.
MaxElements == 3

Elements == 1..MaxElements

\* The ascending sequences over the set S.
Ascending(S) ==
    {q \in UNION {[1..n -> S] : n \in 0..Cardinality(S)} :
        \A i \in 1..Len(q) : \A j \in 1..Len(q) : i < j => q[i] < q[j]}

\* The trees the platform may report: AXChildren of an element is a list
\* of later elements; element 1 is the application element.
AxTrees ==
    {t \in [Elements -> Ascending(Elements)] :
        \A e \in Elements : \A i \in 1..Len(t[e]) : t[e][i] > e}

MacProviders == {[kind |-> "macos", root |-> 1, ch |-> t] : t \in AxTrees}

\* element_to_node_id: format!("{:p}", element)
element_to_node_id(element) == << "0x", element >>

\* The identifiers a caller may ask for: those of the elements, and one
\* that is no pointer.
AskedIds == {element_to_node_id(e) : e \in Elements} \cup {<< "test-id" >>}

\* node_id_to_element: cache.get(node_id.as_str()).copied().context(..)
node_id_to_element(cache, node_id) ==
    IF node_id \in DOMAIN cache THEN Ok(cache[node_id])
    ELSE Err(<< "Node ID not found in cache" >>)

\* cache_element: cache.insert(node_id, element); the cache after it.
cache_element(cache, element) == (element_to_node_id(element) :> element) @@ cache

\* child_elements.iter().map(|&e| self.cache_element(e)): the cache after.
RECURSIVE cache_elements(_, _)
cache_elements(cache, elements) ==
    IF elements = << >> THEN cache
    ELSE cache_elements(cache_element(cache, Head(elements)), Tail(elements))

\* get_children_elements: the AXChildren attribute of the element.
get_children_elements(p, element) == p.ch[element]

\* The Node element_to_node builds: the identifier of the element, and of
\* each child; the role is "unknown" and the actions are those of any role
\* but a button, a text field, a check box or a slider.
mac_node(p, element) ==
    Node(element_to_node_id(element), << "unknown" >>, None, << ActionFocus >>,
         [i \in 1..Len(get_children_elements(p, element)) |->
             element_to_node_id(get_children_elements(p, element)[i])])

\* An element_to_node that caches the element but not its children.
element_to_node_shallow(cache, p, element) ==
    [node |-> mac_node(p, element), cache |-> cache_element(cache, element)]

\* element_to_node: the Node, and the cache after the element and its
\* children were cached.
element_to_node(cache, p, element) ==
    [node |-> mac_node(p, element),
     cache |-> cache_elements(cache_element(cache, element),
                              get_children_elements(p, element))]

\* child_elements.iter().map(|&e| self.element_to_node(e)).collect():
\* the Nodes made so far and the cache after them.
RECURSIVE elements_to_nodes(_, _, _, _)
elements_to_nodes(cache, p, elements, nodes) ==
    IF elements = << >> THEN [nodes |-> nodes, cache |-> cache]
    ELSE LET r == element_to_node(cache, p, Head(elements))
         IN  elements_to_nodes(r.cache, p, Tail(elements), Append(nodes, r.node))

\* A call of the provider: the method and, but for get_root, the NodeId.
Asked(op, node_id) == [op |-> op, node_id |-> node_id]

\* The identifiers a Node carries: its own and those of its children.
IdsOf(node) == {node.id} \cup {node.children[i] : i \in 1..Len(node.children)}

\* get_root returned: r is what element_to_node made of the root.
RootReturned(r) ==
    /\ element_cache' = r.cache
    /\ emitted' = emitted \cup IdsOf(r.node)
    /\ input' = Some(Asked("get_root", None))
    /\ output' = Some(Ok(r.node))

\* MacOSProvider::get_root
CallGetRoot ==
    /\ RootReturned(element_to_node(element_cache, provider, provider.root))
    /\ UNCHANGED << provider, shared, pc, line, response, calls, search,
                    lifecycle, served, encoded, startup, streams >>

\* get_node returned for node_id: found is what the cache held for it.
NodeReturned(node_id, found) ==
    /\ input' = Some(Asked("get_node", Some(node_id)))
    /\ IF found.ok
       THEN LET r == element_to_node(element_cache, provider, found.val)
            IN  /\ element_cache' = r.cache
                /\ emitted' = emitted \cup IdsOf(r.node)
                /\ output' = Some(Ok(r.node))
       ELSE /\ output' = Some(found)
            /\ UNCHANGED << element_cache, emitted >>

\* MacOSProvider::get_node
CallGetNode(node_id) ==
    /\ NodeReturned(node_id, node_id_to_element(element_cache, node_id))
    /\ UNCHANGED << provider, shared, pc, line, response, calls, search,
                    lifecycle, served, encoded, startup, streams >>

\* get_children returned for node_id: found is what the cache held for it.
ChildrenReturned(node_id, found) ==
    /\ input' = Some(Asked("get_children", Some(node_id)))
    /\ IF found.ok
       THEN LET r == elements_to_nodes(element_cache, provider,
                                       get_children_elements(provider, found.val),
                                       << >>)
            IN  /\ element_cache' = r.cache
                /\ emitted' = emitted \cup
                      UNION {IdsOf(r.nodes[i]) : i \in 1..Len(r.nodes)}
                /\ output' = Some(Ok(r.nodes))
       ELSE /\ output' = Some(found)
            /\ UNCHANGED << element_cache, emitted >>

\* MacOSProvider::get_children
CallGetChildren(node_id) ==
    /\ ChildrenReturned(node_id, node_id_to_element(element_cache, node_id))
    /\ UNCHANGED << provider, shared, pc, line, response, calls, search,
                    lifecycle, served, encoded, startup, streams >>

\* MacOSProvider::new has returned; the cache is empty.
PlatformInit ==
    /\ provider \in MacProviders
    /\ pc = "idle"
    /\ line = None
    /\ response = None
    /\ calls = << >>
    /\ name = << >>
    /\ to_visit = << >>
    /\ visited = {}
    /\ matches = << >>
    /\ nodes_checked = 0
    /\ tested = << >>
    /\ expanded = << >>
    /\ Listening
    /\ served = << >>
    /\ NotApplied

PlatformNext ==
    \/ CallGetRoot
    \/ \E node_id \in AskedIds : CallGetNode(node_id)
    \/ \E node_id \in AskedIds : CallGetChildren(node_id)

PlatformSpec == PlatformInit /\ [][PlatformNext]_vars

-----------------------------------------------------------------------------
(* handle_request on an Initialize request, as a function of its body *)

\* The longest protocol_version an Initialize body carries here.
MaxVersionLen == 3

\* The characters of those versions.
VersionChars == {"1", ".", "0", "2"}

\* Option<String>: no version, or any string of those characters.
BodyVersions ==
    {None} \cup {Some(v) : v \in UNION {[1..n -> VersionChars] : n \in 0..MaxVersionLen}}

\* The state before the call: the dispatcher is idle, the body is chosen.
InitializeInit ==
    /\ provider \in ServerProviders
    /\ pc = "idle"
    /\ line = None
    /\ response = None
    /\ calls = << >>
    /\ name = << >>
    /\ to_visit = << >>
    /\ visited = {}
    /\ matches = << >>
    /\ nodes_checked = 0
    /\ tested = << >>
    /\ expanded = << >>
    /\ Listening
    /\ served = << >>
    /\ input \in BodyVersions
    /\ encoded = None
    /\ output = None

\* handle_request returned o.
Returned(o) ==
    /\ output = None
    /\ output' = Some(o)

\* handle_request on Message::request(Request::Initialize { protocol_version })
\* after the parse.
ApplyInitialize ==
    /\ Returned(dispatch(provider, Ok(MessageRequest(Initialize(input))),
                         K_AX_ERROR_SUCCESS))
    /\ UNCHANGED << provider, shared, platform, startup, streams, pc, line,
                    response, calls, search, lifecycle, served, input, encoded
                    >>

InitializeNext == ApplyInitialize

InitializeSpec == InitializeInit /\ [][InitializeNext]_vars

-----------------------------------------------------------------------------
(* The round trip of a Request and of the Message that wraps it *)

\* The largest finite coordinate of a Scroll here.
MaxCoordinate == 1

\* The f64 values of a Scroll.
Floats == {F64(n) : n \in (0 - MaxCoordinate)..MaxCoordinate}
              \cup {NaN, Infinity, NegInfinity}

\* Every variant of Action.
Actions ==
    {ActionFocus, ActionPress, ActionIncrement, ActionDecrement, ActionContextMenu}
    \cup {ActionSetValue(v) : v \in {NameEmpty, Nameok}}
    \cup {ActionCustom(n) : n \in {NameEmpty, NameOK}}
    \cup {ActionScroll(x, y) : x \in Floats, y \in Floats}

\* Every variant of Request that protocol.rs declares.
Requests ==
    {QueryTree(d, n) : d \in {None, Some(0), Some(5)}, n \in {None, Some(0), Some(100)}}
    \cup {GetNode(id) : id \in {MissingId, 1, 2}}
    \cup {PerformAction(id, a) : id \in {1, 2}, a \in Actions}
    \cup {FindByName(q) : q \in {NameEmpty, Nameok, NameOK}}

\* A Request on its own, or the Message that Message::request makes of it.
RoundTripInputs ==
    {[of |-> "Request", value |-> r] : r \in Requests}
    \cup {[of |-> "Message", value |-> MessageRequest(r)] : r \in Requests}

\* The state before the round trip: the value is chosen.
CodecInit ==
    /\ provider \in ServerProviders
    /\ pc = "idle"
    /\ line = None
    /\ response = None
    /\ calls = << >>
    /\ name = << >>
    /\ to_visit = << >>
    /\ visited = {}
    /\ matches = << >>
    /\ nodes_checked = 0
    /\ tested = << >>
    /\ expanded = << >>
    /\ Listening
    /\ served = << >>
    /\ input \in RoundTripInputs
    /\ encoded = None
    /\ output = None

\* serde_json::to_string(&x)
Serialize ==
    /\ encoded = None
    /\ encoded' = Some(IF input.of = "Request" THEN to_string_request(input.value)
                                               ELSE to_string(input.value))
    /\ UNCHANGED << provider, shared, platform, startup, streams, pc, line,
                    response, calls, search, lifecycle, served, input, output
                    >>

\* serde_json::from_str(&json)
Deserialize ==
    /\ IsSome(encoded)
    /\ Returned(IF input.of = "Request" THEN from_str_request(Unwrap(encoded))
                                         ELSE from_str(Unwrap(encoded)))
    /\ UNCHANGED << provider, shared, platform, startup, streams, pc, line,
                    response, calls, search, lifecycle, served, input, encoded
                    >>

CodecNext == Serialize \/ Deserialize

CodecSpec == CodecInit /\ [][CodecNext]_vars

-----------------------------------------------------------------------------
(* The round trip of the Messages the server answers with *)

\* The longest node list of a response here.
MaxListed == 2

\* The nodes the providers of the server runs and the diamond return.
ProviderNodes ==
    {NodeOf(p, id) : p \in ServerProviders, id \in SmallIds}
    \cup {NodeOf(p, id) : p \in {q \in FixedProviders : q.kind = "diamond"}, id \in 1..4}

\* What the handlers put into a Response: the root as a one-node tree
\* (handle_query_tree), a node (handle_get_node), success: true
\* (handle_perform_action), the list of matches (handle_find_by_name).
ResponseDatas ==
    {Tree(<< n >>) : n \in ProviderNodes}
    \cup {NodeData(n) : n \in ProviderNodes}
    \cup {ActionResult(TRUE)}
    \cup {Nodes(ns) : ns \in UNION {[1..k -> ProviderNodes] : k \in 0..MaxListed}}

\* The errors of handle_request and of the handlers.
ResponseErrors ==
    {ErrorInfo("Internal", << "Invalid JSON: " >>),
     ErrorInfo("Internal", << "Expected request, got response" >>),
     ErrorInfo("Internal", << "Failed to get root: ", "root unavailable" >>),
     ErrorInfo("NotFound", << "Node not found: ", "Node ID not found in cache" >>),
     ErrorInfo("InvalidAction",
               << "Failed to perform action: ", "Node ID not found in cache" >>)}

\* Message::response of each.
ResponseInputs ==
    {[of |-> "Message", value |-> MessageResponse(Success(d))] : d \in ResponseDatas}
    \cup {[of |-> "Message", value |-> MessageResponse(Error(e))] : e \in ResponseErrors}

\* The state before the round trip: the response is chosen.
ResponseCodecInit ==
    /\ provider \in TransportProviders
    /\ pc = "idle"
    /\ line = None
    /\ response = None
    /\ calls = << >>
    /\ name = << >>
    /\ to_visit = << >>
    /\ visited = {}
    /\ matches = << >>
    /\ nodes_checked = 0
    /\ tested = << >>
    /\ expanded = << >>
    /\ Listening
    /\ served = << >>
    /\ input \in ResponseInputs
    /\ encoded = None
    /\ output = None

ResponseCodecSpec == ResponseCodecInit /\ [][CodecNext]_vars

-----------------------------------------------------------------------------
(* Properties of the dispatcher *)

\* What serde_json::from_str made of the line being answered.
Parsed == from_str(Unwrap(line))

\* The line decoded to a Message of the server's version that carries a
\* request of the given kind, and handle_request has returned.
Requested(method) ==
    /\ pc = "respond"
    /\ LET m == Parsed
       IN  /\ m.ok
           /\ m.val.protocol_version = PROTOCOL_VERSION
           /\ IsRequest(m.val.content)
           /\ m.val.content.request.method = method
TheRequest == Parsed.val.content.request

\* The line decoded to a Message of another version.
WrongVersion ==
    LET m == Parsed
    IN  /\ m.ok
        /\ m.val.protocol_version # PROTOCOL_VERSION

\* The response is an Error of the given code; the Success of a result.
IsError(code) ==
    /\ IsSome(response)
    /\ Unwrap(response).protocol_version = PROTOCOL_VERSION
    /\ IsResponse(Unwrap(response).content)
    /\ Unwrap(response).content.response.status = "error"
    /\ Unwrap(response).content.response.error.code = code
ErrorMessage == Unwrap(response).content.response.error.message
IsSuccess(result) == response = Some(MessageSuccess(result))

\* A sequence without a repeated element; the identifiers of a list of nodes.
NoRepeat(seq) == Cardinality({seq[i] : i \in 1..Len(seq)}) = Len(seq)
Ids(nodes) == [i \in 1..Len(nodes) |-> nodes[i].id]

\* C1: every line that decodes to a Message whose protocol_version is not
\* exactly "1.0" is answered with an Error response of code internal, whatever
\* kind of request it carries, and also when it carries a response.
C1_WrongVersionIsInternalError ==
    (pc = "respond" /\ WrongVersion) => IsError("Internal")

\* A get_node request of version "1.1" for a registered node was refused.
C1_Witness ==
    /\ pc = "respond"
    /\ WrongVersion
    /\ Parsed.val.protocol_version = Version11
    /\ IsRequest(Parsed.val.content)
    /\ TheRequest.method = "GetNode"
    /\ TheRequest.node_id \in Registered(provider)
    /\ IsError("Internal")

\* C2: a request whose protocol_version is not "1.0" is refused before any
\* handler runs: no provider operation is called for it and no search is
\* entered.
C2_WrongVersionCallsNoProvider ==
    (pc # "idle" /\ WrongVersion /\ IsRequest(Parsed.val.content))
        => /\ pc = "respond"
           /\ calls = << >>
           /\ nodes_checked = 0
           /\ to_visit = << >>

\* A press on a registered node, sent with version "2.0", called nothing.
C2_Witness ==
    /\ pc = "respond"
    /\ WrongVersion
    /\ Parsed.val.protocol_version = Version20
    /\ IsRequest(Parsed.val.content)
    /\ TheRequest.method = "PerformAction"
    /\ TheRequest.node_id \in Registered(provider)
    /\ TheRequest.action = ActionPress
    /\ calls = << >>

\* C3: within one search no identifier is match-tested twice, none has its
\* children fetched twice, and no two nodes of the result have the same
\* identifier, whatever cycles and shared children the graph has.
C3_NoIdentifierProcessedTwice ==
    /\ NoRepeat(tested)
    /\ NoRepeat(expanded)
    /\ NoRepeat(Ids(matches))

\* The search of the diamond met node 4 by both paths and the root again
\* through the cycle, and processed each of the four nodes once.
C3_Witness ==
    /\ provider.kind = "diamond"
    /\ pc = "respond"
    /\ Len(tested) = 4
    /\ nodes_checked > Len(tested)
    /\ Len(matches) > 0

\* C4: a search that has its root ends, and ends with a Success response
\* carrying the matches found, also on cyclic graphs and on graphs with more
\* than MAX_NODES reachable nodes.
C4_SearchEndsWithSuccess ==
    (pc = "find_by_name") ~> (pc = "respond" /\ IsSuccess(Nodes(matches)))

\* The search of the chain, cut short by the limit, was answered with Success.
C4_Witness ==
    /\ provider.kind = "chain"
    /\ Cardinality(Registered(provider)) > MAX_NODES
    /\ pc = "respond"
    /\ nodes_checked = MAX_NODES
    /\ IsSuccess(Nodes(matches))

\* C5: a search counts at most MAX_NODES popped entries and processes at most
\* that many nodes; the entry popped once MAX_NODES have been counted ends
\* the search and is neither match-tested nor expanded, whatever is left on the
\* stack.
C5_Step ==
    /\ nodes_checked' <= MAX_NODES
    /\ Len(tested') <= MAX_NODES
    /\ Len(expanded') <= MAX_NODES
    /\ (pc = "find_by_name" /\ nodes_checked = MAX_NODES /\ to_visit # << >>)
        => /\ pc' = "find_by_name_return"
           /\ UNCHANGED << nodes_checked, tested, expanded, matches, visited, calls >>
C5_AtMostMaxNodesChecked == [][C5_Step]_vars

\* The search of the chain for "ok" stopped at the limit: the last node, named
\* "OK", was popped and dropped, and an unvisited node is left on the stack.
C5_Witness ==
    /\ provider.kind = "chain"
    /\ pc = "find_by_name_return"
    /\ name = Nameok
    /\ nodes_checked = MAX_NODES
    /\ Len(tested) = MAX_NODES
    /\ to_visit # << >>
    /\ to_visit[1] \notin visited
    /\ ChainLen \notin visited
    /\ matches = << >>

\* Two characters that differ at most in case, and a name in which the query
\* occurs up to case.
SameLetter(a, b) == a = b \/ {a, b} \in {{"o", "O"}, {"k", "K"}, {"a", "A"}}
Occurs(query, text) ==
    \E k \in 0..(Len(text) - Len(query)) :
        \A j \in 1..Len(query) : SameLetter(text[k + j], query[j])
ShouldMatch(node_name, query) ==
    node_name # None /\ Occurs(query, Unwrap(node_name))

\* C6: a processed node is in the result exactly when it has a name in which
\* the query occurs up to case; so an unnamed node is never in it, the empty
\* query selects every processed node that has a name, and "ok" selects "OK".
C6_ResultIsTheMatchingProcessedNodes ==
    /\ \A i \in 1..Len(matches) :
            /\ matches[i].id \in visited
            /\ IsSome(matches[i].name)
    /\ \A i \in 1..Len(tested) :
            (tested[i] \in {matches[j].id : j \in 1..Len(matches)})
                <=> ShouldMatch(NameOf(provider, tested[i]), name)

\* The search of the diamond for "ok" returned the nodes named "ok" and "OK"
\* and neither the unnamed root nor the node with the empty name.
C6_Witness ==
    /\ provider.kind = "diamond"
    /\ pc = "respond"
    /\ name = Nameok
    /\ Len(tested) = 4
    /\ {matches[j].name : j \in 1..Len(matches)} = {Some(Nameok), Some(NameOK)}

\* C7: get_node is answered with Success carrying the node the provider has
\* for the identifier, and with an Error of code not_found when the provider
\* does not resolve the identifier; the provider is asked once.
C7_GetNodeReportsTheProvider ==
    Requested("GetNode")
        => /\ Len(calls) = 1
           /\ calls[1].op = "get_node"
           /\ calls[1].arg = << TheRequest.node_id >>
           /\ IF TheRequest.node_id \in Registered(provider)
              THEN IsSuccess(NodeData(NodeOf(provider, TheRequest.node_id)))
              ELSE IsError("NotFound")

\* get_node for an identifier the provider does not know was answered not_found.
C7_Witness ==
    /\ Requested("GetNode")
    /\ TheRequest.node_id \notin Registered(provider)
    /\ IsError("NotFound")

\* C8: perform_action is answered with Success and ActionResult{success: true}
\* exactly when the provider's perform_action returned Ok, and with an Error
\* of code invalid_action for every failure of it, an unknown node included.
C8_PerformActionReportsTheProvider ==
    Requested("PerformAction")
        => /\ Len(calls) = 1
           /\ calls[1].op = "perform_action"
           /\ calls[1].arg = << TheRequest.node_id, TheRequest.action >>
           /\ calls[1].ok <=> IsSuccess(ActionResult(TRUE))
           /\ ~calls[1].ok => IsError("InvalidAction")
           /\ TheRequest.node_id \notin Registered(provider) => IsError("InvalidAction")

\* A press on an unknown node was answered invalid_action.
C8_Witness ==
    /\ Requested("PerformAction")
    /\ TheRequest.node_id \notin Registered(provider)
    /\ TheRequest.action = ActionPress
    /\ ~calls[1].ok
    /\ IsError("InvalidAction")

\* C9 as stated: query_tree is answered with Success and a Tree of exactly
\* the root, for every max_depth and max_nodes.
C9_QueryTreeAlwaysSucceeds ==
    Requested("QueryTree") => IsSuccess(Tree(<< NodeOf(provider, RootId) >>))

\* C9, amended: when get_root succeeds, query_tree is answered with Success
\* and a Tree of exactly the root, for every max_depth and max_nodes; it asks
\* the provider for the root and nothing else.
C9_QueryTreeReturnsTheRoot ==
    (Requested("QueryTree") /\ provider.root_ok)
        => /\ IsSuccess(Tree(<< NodeOf(provider, RootId) >>))
           /\ calls = << [op |-> "get_root", arg |-> << >>, ok |-> TRUE] >>

\* query_tree with max_depth 0 and max_nodes 0 returned the root, which has
\* children, and only the root.
C9_Witness ==
    /\ Requested("QueryTree")
    /\ TheRequest.max_depth = Some(0)
    /\ TheRequest.max_nodes = Some(0)
    /\ provider.root_ok
    /\ ChildrenOf(provider, RootId) # << >>
    /\ IsSuccess(Tree(<< NodeOf(provider, RootId) >>))

\* Lines that are no Message: not a JSON object, an object without
\* protocol_version, an object with neither a method nor a status.
NotAnObject(l) == ~IsObj(l)
MissingVersion(l) == IsObj(l) /\ ~Has(l.obj, "protocol_version")
NoContent(l) == IsObj(l) /\ ~HasStr(l.obj, "method") /\ ~HasStr(l.obj, "status")

\* C10: a line that is no Message is not decoded, and a line that is not
\* decoded is answered with an Error of code internal that reports the parse
\* failure, not the version; no handler runs and the provider is not called.
C10_UndecodableIsInternalError ==
    /\ pc \in {"find_by_name", "find_by_name_return"} => Parsed.ok
    /\ pc = "respond"
        => /\ (\/ NotAnObject(Unwrap(line))
               \/ MissingVersion(Unwrap(line))
               \/ NoContent(Unwrap(line))) => ~Parsed.ok
           /\ ~Parsed.ok
                => /\ IsError("Internal")
                   /\ ErrorMessage[1] = "Invalid JSON: "
                   /\ calls = << >>
                   /\ nodes_checked = 0
                   /\ tested = << >>

\* A well-formed press that lacks protocol_version was answered with the
\* parse error, and the provider was not called.
C10_Witness ==
    /\ pc = "respond"
    /\ MissingVersion(Unwrap(line))
    /\ HasStr(Unwrap(line).obj, "method")
    /\ Unwrap(line).obj["method"] = JStr(<< "perform_action" >>)
    /\ Has(Unwrap(line).obj, "action")
    /\ IsError("Internal")
    /\ ErrorMessage[1] = "Invalid JSON: "
    /\ calls = << >>

\* The line decoded to a Message of the server's version that carries a
\* response.
ReceivedResponse ==
    LET m == Parsed
    IN  /\ m.ok
        /\ m.val.protocol_version = PROTOCOL_VERSION
        /\ IsResponse(m.val.content)

\* C11: a line that decodes to a Message of version "1.0" whose content is a
\* Response is answered with an Error of code internal and the message
\* "Expected request, got response"; no handler runs for it and the provider
\* is not called.
C11_ResponseIsRefused ==
    (pc # "idle" /\ ReceivedResponse)
        => /\ pc = "respond"
           /\ IsError("Internal")
           /\ ErrorMessage = << "Expected request, got response" >>
           /\ calls = << >>
           /\ nodes_checked = 0

\* A Success response carrying an action result was sent to the server and
\* refused.
C11_Witness ==
    /\ pc = "respond"
    /\ ReceivedResponse
    /\ Parsed.val.content.response = Success(ActionResult(TRUE))
    /\ IsError("Internal")
    /\ ErrorMessage = << "Expected request, got response" >>
    /\ calls = << >>

\* The body version handle_initialize accepts: none, or one that begins "1.".
AcceptedBody(v) ==
    \/ v = None
    \/ /\ Len(Unwrap(v)) >= 2
       /\ Unwrap(v)[1] = "1"
       /\ Unwrap(v)[2] = "."

\* The static payload of a successful Initialize.
InitializePayload ==
    [variant |-> "Initialize",
     protocol_version |-> << "1", ".", "0" >>,
     capabilities |-> [tools |-> Some([list_changed |-> FALSE])],
     server_info |-> [name |-> << "accessibility_mcp" >>]]

\* C12: in an envelope of version "1.0", an Initialize whose body has no
\* protocol_version, or one that starts with "1.", is answered with Success
\* and the static payload; every other body version is answered with an Error
\* of code internal.  No provider call is made either way.
C12_InitializeChecksTheMajorVersion ==
    IsSome(output)
        => /\ Unwrap(output).route = "reply"
           /\ Unwrap(output).calls = << >>
           /\ IF AcceptedBody(input)
              THEN Unwrap(output).response = MessageSuccess(InitializePayload)
              ELSE /\ Unwrap(output).response.protocol_version = PROTOCOL_VERSION
                   /\ IsResponse(Unwrap(output).response.content)
                   /\ Unwrap(output).response.content.response.status = "error"
                   /\ Unwrap(output).response.content.response.error.code = "Internal"

\* An Initialize with body version "1.2" was accepted.
C12_Witness ==
    /\ input = Some(<< "1", ".", "2" >>)
    /\ IsSome(output)
    /\ Unwrap(output).response = MessageSuccess(InitializePayload)

\* The four tool descriptors, in the order of the catalogue.
ToolsCatalog ==
    << [name |-> "query_tree", required |-> << >>],
       [name |-> "get_node", required |-> << "node_id" >>],
       [name |-> "perform_action", required |-> << "node_id", "action" >>],
       [name |-> "find_by_name", required |-> << "name" >>] >>

\* C13: every tools_list request is answered with Success and the same four
\* tool descriptors (query_tree, get_node, perform_action, find_by_name) in
\* that order, without a provider call, whatever the provider is and whatever
\* was handled on the stream before: the answer is one constant, so two runs
\* that differ in provider or history give equal answers.
C13_ToolsListIsStatic ==
    Requested("ToolsList")
        => /\ response = Some(MessageSuccess([variant |-> "Tools",
                                              tools |-> ToolsCatalog]))
           /\ calls = << >>

\* tools_list was answered by a server whose provider cannot reach its root,
\* after two requests, the first of which met a provider failure.
C13_Witness ==
    /\ Requested("ToolsList")
    /\ ~provider.root_ok
    /\ served = << TRUE, FALSE >>
    /\ IsSome(response)
    /\ Len(Unwrap(response).content.response.result.tools) = 4

\* A Message that carries a Response and the version "1.0".
ResponseOfVersion10(message) ==
    /\ DOMAIN message = {"protocol_version", "content"}
    /\ message.protocol_version = << "1", ".", "0" >>
    /\ DOMAIN message.content = {"response"}
    /\ message.content.response.status \in {"success", "error"}

\* C14: whatever the line was (a request that succeeded, one whose handler
\* failed, an undecodable line, a line of another version, a response), the
\* Message handle_request returns is a Response envelope of version "1.0";
\* and Message::request, Message::response, Message::success and
\* Message::error, applied to the request that was received and to the parts
\* of the answer, build Messages of version "1.0".
C14_EveryAnswerIsAResponseOfVersion10 ==
    pc = "respond"
        => /\ IsSome(response)
           /\ ResponseOfVersion10(Unwrap(response))
           /\ ResponseOfVersion10(MessageResponse(Unwrap(response).content.response))
           /\ ResponseOfVersion10(MessageSuccess(Nodes(matches)))
           /\ ResponseOfVersion10(MessageError("NotFound", name))
           /\ LET m == Parsed
              IN  (m.ok /\ IsRequest(m.val.content))
                    => MessageRequest(m.val.content.request)
                        = [protocol_version |-> << "1", ".", "0" >>,
                           content |-> [request |-> m.val.content.request]]

\* A get_node request of version "2.0" was answered with a Message of
\* version "1.0".
C14_Witness ==
    /\ pc = "respond"
    /\ Parsed.ok
    /\ Parsed.val.protocol_version = Version20
    /\ IsRequest(Parsed.val.content)
    /\ TheRequest.method = "GetNode"
    /\ ResponseOfVersion10(Unwrap(response))

\* The identifiers of a child list that the provider resolves, in order.
Resolvable(children) == SelectSeq(children, LAMBDA c : c \in Registered(provider))

\* A get_node call of the request being answered returned Err.
ChildLookupFailed ==
    \E i \in 1..Len(calls) : calls[i].op = "get_node" /\ ~calls[i].ok

\* A turn of the loop that fetches the children of the popped node pushes
\* those that resolve, in the order of the child list, asks the provider
\* once per child reference, and stays in the loop.
C16_Step ==
    (pc = "find_by_name" /\ Len(expanded') = Len(expanded) + 1)
        => /\ pc' = "find_by_name"
           /\ to_visit' = SubSeq(to_visit, 1, Len(to_visit) - 1)
                            \o Resolvable(ChildrenOf(provider, to_visit[Len(to_visit)]))
           /\ Len(calls') = Len(calls)
                            + Len(ChildrenOf(provider, to_visit[Len(to_visit)]))

\* A search in which a child lookup failed still ends with Success; unless the
\* limit cut it short, nothing is left on the stack and every resolvable child
\* of a processed node was processed; the result is the matching processed
\* nodes.
C16_Answer ==
    (Requested("FindByName") /\ ChildLookupFailed)
        => /\ IsSuccess(Nodes(matches))
           /\ nodes_checked < MAX_NODES
                => /\ to_visit = << >>
                   /\ \A i \in 1..Len(expanded) :
                        \A j \in 1..Len(ChildrenOf(provider, expanded[i])) :
                            ChildrenOf(provider, expanded[i])[j] \in Registered(provider)
                                => ChildrenOf(provider, expanded[i])[j] \in visited
           /\ \A i \in 1..Len(tested) :
                (tested[i] \in {matches[j].id : j \in 1..Len(matches)})
                    <=> ShouldMatch(NameOf(provider, tested[i]), name)

\* C16: when provider.get_node fails for a child identifier during
\* find_by_name, that child is skipped, the children after it and the entries
\* already on the stack are still processed, and the response is Success with
\* every match among the processed nodes.
C16_FailedChildIsSkipped == [](C16_Answer) /\ [][C16_Step]_vars

\* The root lists an unregistered identifier and then n2: the search for "ok"
\* skipped the first, processed n2 and returned it.
C16_Witness ==
    /\ Requested("FindByName")
    /\ provider.kind = "small"
    /\ ChildrenOf(provider, RootId) = << MissingId, 2 >>
    /\ ChildLookupFailed
    /\ name = Nameok
    /\ tested = << 1, 2 >>
    /\ Ids(matches) = << 2 >>
    /\ IsSuccess(Nodes(matches))

\* The answer is an Error response.
AnsweredWithError ==
    /\ IsSome(response)
    /\ ResponseOfVersion10(Unwrap(response))
    /\ Unwrap(response).content.response.status = "error"

\* C15 as stated: every request during which a provider call failed is
\* answered with an Error response.
C15_EveryFailureIsAnError ==
    (pc = "respond" /\ ProviderFailed) => AnsweredWithError

\* A request whose handler's own provider call (get_root, get_node of GetNode,
\* perform_action) failed is answered with an Error; a FindByName whose root
\* resolved is answered with Success although a child lookup failed; and
\* between two requests the dispatcher holds nothing of the earlier one.
C15_Answer ==
    /\ (pc = "respond" /\ calls # << >> /\ ~calls[1].ok) => AnsweredWithError
    /\ (Requested("FindByName") /\ calls[1].ok) => IsSuccess(Nodes(matches))
    /\ pc = "idle"
        => /\ line = None
           /\ response = None
           /\ calls = << >>
           /\ to_visit = << >>
           /\ visited = {}
           /\ matches = << >>
           /\ nodes_checked = 0

\* The server task ends only at end of input, at a failed write or at the
\* shutdown branch; and once the answer to a request that met a provider
\* failure is written, the loop is back at its read with the stream open.
C15_Step ==
    /\ (server = "listening" /\ server' = "stopped")
        => (ReadEof \/ WriteFails \/ SelectShutdown)
    /\ (pc = "respond" /\ ProviderFailed /\ served' # served)
        => (pc' = "idle" /\ Reading')

\* C15, amended: the failure of the provider call a handler depends on is
\* converted into an Error response for that request, while a failed child
\* lookup inside FindByName is skipped and the request succeeds; in both
\* cases the failure ends neither the read loop nor the server, and the next
\* request on the stream is read and answered on its own.
C15_FailureStaysInItsRequest == [](C15_Answer) /\ [][C15_Step]_vars

\* After a request that met a provider failure and one that did not, a
\* get_node for the root was answered with Success by a server still
\* listening on stdio.
C15_Witness ==
    /\ served = << TRUE, FALSE >>
    /\ transport = "stdio"
    /\ server = "listening"
    /\ Requested("GetNode")
    /\ IsSuccess(NodeData(NodeOf(provider, RootId)))

\* The coordinates of a Scroll are finite; every other request has none.
FiniteCoordinates(r) ==
    (r.method = "PerformAction" /\ r.action.type = "Scroll")
        => (is_finite(r.action.x) /\ is_finite(r.action.y))

\* The Request of the round trip, on its own or inside its Message.
InputRequest ==
    IF input.of = "Request" THEN input.value ELSE input.value.content.request

\* C17: for every Request (QueryTree with max_depth and max_nodes present or
\* absent, GetNode, PerformAction with each Action variant, FindByName) and
\* for the Message that wraps it, deserialising what serialising produced
\* succeeds and gives back the value.
C17_RoundTrip ==
    IsSome(output) => Unwrap(output) = Ok(input.value)

\* C17, for the requests outside the failing case: when the coordinates of a
\* Scroll are finite the round trip gives back the value, and when one of
\* them is not, the text holds null in its place and is not decoded.
C17_RoundTripOfFiniteRequests ==
    IsSome(output)
        => IF FiniteCoordinates(InputRequest)
           THEN Unwrap(output) = Ok(input.value)
           ELSE ~Unwrap(output).ok

\* At most one signal was sent, and the sender is gone exactly when it was.
C18_Sent ==
    /\ signals <= 1
    /\ (shutdown_tx = None) <=> (signals = 1)
    /\ handle = "held" => signals = 0
    /\ handle \in {"shutdown", "dropped"} => signals = 1

\* shutdown() and a drop of the held handle send one signal; the drop that
\* follows shutdown() sends none.
C18_Step ==
    /\ (handle = "held" /\ handle' # "held") => signals' = signals + 1
    /\ (handle = "shutdown" /\ handle' = "dropped") => signals' = signals

\* C18: over every sequence of shutdown() and drop of one handle, the
\* shutdown signal is sent at most once: shutdown() takes the sender and
\* fires it, the drop that follows finds none, and a drop without shutdown()
\* fires once.
C18_SignalSentAtMostOnce == [](C18_Sent) /\ [][C18_Step]_vars

\* shutdown() has fired the signal and left no sender to the drop that
\* follows it.
C18_Witness ==
    /\ handle = "shutdown"
    /\ shutdown_tx = None
    /\ signals = 1

\* C19: if shutdown() is called or the handle is dropped while the server is
\* listening, the server's loop ends and the server is stopped at some later
\* point, given that the select takes a branch that is ready again and again
\* and that a request once read is answered.
C19_ShutdownStopsTheServer ==
    (Signalled /\ server = "listening") ~> (server = "stopped")

\* A unix socket server whose handle had shutdown() called has left its
\* accept loop by the shutdown branch, which removed the socket file.
C19_Witness ==
    /\ transport = "unix_socket"
    /\ handle = "shutdown"
    /\ signals = 1
    /\ server = "stopped"
    /\ socket_file = FALSE

\* A step reads a request line from stdin; a step accepts a connection.
ReadsLine == transport = "stdio" /\ line = None /\ line' # None
Accepts == accepted' # accepted

\* C20: once the shutdown signal has been sent, the stdio loop reads and
\* dispatches no further request line and the accept loop of the unix socket
\* accepts no further connection.
C20_NoInputAfterSignal == [][Signalled => (~ReadsLine /\ ~Accepts)]_vars

\* C20, from the point the code does guarantee: once the server task has
\* left its loop, no line is read from stdin and no connection is accepted.
C20_NoInputAfterStop == [][server = "stopped" => (~ReadsLine /\ ~Accepts)]_vars

-----------------------------------------------------------------------------
(* Properties of start_mcp_server, the server tasks and their streams *)

\* A step reads a line, blank or not, from the stream c.
ReadsFrom(c) ==
    /\ Len(wire') = Len(wire) + 1
    /\ wire'[Len(wire')].conn = c
    /\ wire'[Len(wire')].dir = "in"

\* The accept loop has left by its shutdown branch.
ShutDown == server = "stopped" /\ Signalled /\ started = "ok"

\* C21: once the unix socket server has been shut down, no line that arrives
\* on a connection accepted before is read, dispatched or answered: a step
\* taken after the shutdown reads from no connection.
C21_ShutdownStopsTheConnections ==
    [][(transport = "unix_socket" /\ ShutDown)
          => \A c \in 1..accepted : ~ReadsFrom(c)]_vars

\* What a step may do to a request in progress: go on with its dispatch,
\* write its response to the stream it came from, or meet a write error,
\* which ends the loop of that stream.  Until then the stdio loop, which
\* is the server task, stays in its loop.
C22_Step ==
    pc # "idle" =>
        \/ /\ pc' # "idle"
           /\ line' = line
           /\ transport = "stdio" => server' = server
        \/ /\ pc' = "idle"
           /\ wire' = Append(wire, Event(conn, "out", response[1]))
           /\ transport = "stdio" => server' = server
        \/ /\ pc' = "idle"
           /\ wire' = Append(wire, Event(conn, "end", End("write error")))
           /\ IF conn = 0 THEN server' = "stopped" ELSE conn \in closed'

\* C22: a shutdown signal never interrupts a request in progress: once a
\* line that is not blank has been read, it is dispatched to the end and its
\* response is written, unless the write fails, before the loop takes its
\* shutdown branch.
C22_RequestsAreNotInterrupted == [][C22_Step]_vars

\* The signal was sent while the stdio loop holds a response it has not
\* written yet, and the loop has not left.
C22_Witness ==
    /\ transport = "stdio"
    /\ Signalled
    /\ pc = "respond"
    /\ server = "listening"

\* The accept loop is left only by its shutdown branch, and the step that
\* leaves it removes the socket file.
C23_Step ==
    (transport = "unix_socket" /\ server = "listening" /\ server' = "stopped")
        => (Signalled /\ socket_file /\ ~socket_file')

\* Once a server that has listened is stopped there is no socket file.
C23_Removed ==
    (transport = "unix_socket" /\ started = "ok" /\ Signalled /\ server = "stopped")
        => ~socket_file

BindFailed ==
    /\ transport = "unix_socket"
    /\ started \in {"spawned", "ok"}
    /\ server = "stopped"
    /\ ~Signalled

\* C24: if the unix socket cannot be bound, start_mcp_server does not
\* report success, returns no handle, and the server is not announced as
\* listening.
C24_BindFailureAbortsStartup ==
    BindFailed => (started # "ok" /\ handle = "none" /\ ~announced)

\* C25: if create_provider() fails, start_mcp_server returns an error: no
\* server task is spawned, no handle is returned, and the server is never
\* listening.  (The states that follow an error are all checked, so the
\* server is not listening later either.)
C25_ProviderFailureAbortsStartup ==
    started = "err" =>
        /\ server = "stopped"
        /\ handle = "none"
        /\ shutdown_tx = None
        /\ ~announced
        /\ accepted = 0
        /\ wire = << >>

\* start_mcp_server returned an error for a transport it implements, so the
\* error is that of create_provider.
C25_Witness ==
    /\ started = "err"
    /\ transport = "unix_socket"

\* The steps of the chain Stopped -> Starting -> Listening -> ShuttingDown
\* -> Stopped.  The shutdown branch of a select runs from the signal to the
\* break without a suspension point, so ShuttingDown is passed inside the
\* one step that takes that branch.
C26_Chain ==
    \/ server = "stopped" /\ server' = "starting"
    \/ server = "starting" /\ server' = "listening"
    \/ server = "listening" /\ server' = "stopped" /\ Signalled /\ pc' = pc

\* C26 as stated: the server changes its state only along the chain.
C26_OnlyTheChain == [][server' # server => C26_Chain]_vars

\* The steps beside the chain: a unix socket task whose bind fails returns
\* before its loop, and the stdio loop breaks on the end of stdin, a read
\* error or a write error without any signal.
C26_Aborts ==
    \/ /\ transport = "unix_socket"
       /\ server = "starting"
       /\ server' = "stopped"
       /\ ~socket_file'
    \/ /\ transport = "stdio"
       /\ server = "listening"
       /\ server' = "stopped"
       /\ pc' = "idle"

\* C26, amended: the server changes its state along the chain, or from
\* Starting to Stopped when the bind fails, or from Listening to Stopped
\* when the stdio stream ends or fails; it is started at most once.
C26_ChainOrAbort ==
    [][server' # server =>
          /\ C26_Chain \/ C26_Aborts
          /\ server' = "starting" => started = "no"]_vars

\* The stdio server has stopped although no signal was ever sent.
C26_Witness ==
    /\ transport = "stdio"
    /\ started = "ok"
    /\ server = "stopped"
    /\ ~Signalled

\* On the unix socket transport, a step that ends the handler of a
\* connection (its read or its write failed, or its stream ended) ends that
\* of one connection; the accept loop, every other connection and a request
\* in progress on another connection are as before.
C27_Step ==
    (transport = "unix_socket" /\ closed' # closed) =>
        \E c \in Readers :
            /\ closed' = closed \cup {c}
            /\ (pc # "idle" /\ conn # c)
                  => (pc' = pc /\ line' = line /\ response' = response)
            /\ Readers' = Readers \ {c}
            /\ server' = server
            /\ accepted' = accepted
            /\ socket_file' = socket_file

\* The accept loop is left only on the shutdown signal, whatever accept
\* returned before.
C27_AcceptLoop ==
    (transport = "unix_socket" /\ server = "listening" /\ server' # "listening")
        => Signalled

\* C27: a read or write error on one unix socket connection ends only the
\* handler of that connection: the accept loop goes on accepting and the
\* other connections go on being served; a failed accept does not end the
\* accept loop either.
C27_ErrorsEndOneConnection == [][C27_Step /\ C27_AcceptLoop]_vars

\* The handler of the first connection has returned; the accept loop is
\* running and the second connection has a request in progress.
C27_Witness ==
    /\ transport = "unix_socket"
    /\ closed = {1}
    /\ server = "listening"
    /\ ~Signalled
    /\ conn = 2
    /\ pc = "respond"

\* The events of the lines that are not blank read from the stream c, and
\* of the responses written to it, in order.
LinesOf(c) ==
    LET Test(e) == e.conn = c /\ e.dir = "in" /\ ~is_empty(e.text)
    IN  SelectSeq(wire, Test)

ResponsesOf(c) ==
    LET Test(e) == e.conn = c /\ e.dir = "out"
    IN  SelectSeq(wire, Test)

\* The stream c has a request in progress; the loop of the stream c has
\* ended.
InProgress(c) == pc # "idle" /\ conn = c
Ended(c) == IF c = 0 THEN server = "stopped" ELSE c \in closed

\* A stream has as many responses as lines that are not blank, and one less
\* while its last line is being handled.
C28_OnePerLine ==
    \A c \in 0..accepted :
        Len(LinesOf(c)) = Len(ResponsesOf(c)) + (IF InProgress(c) THEN 1 ELSE 0)

\* The same, but for a stream whose loop has ended, which may have left its
\* last line unanswered.
C28_OnePerLineUnlessEnded ==
    \A c \in 0..accepted :
        \/ Len(LinesOf(c)) = Len(ResponsesOf(c)) + (IF InProgress(c) THEN 1 ELSE 0)
        \/ /\ Ended(c)
           /\ ~InProgress(c)
           /\ Len(LinesOf(c)) = Len(ResponsesOf(c)) + 1

\* The response held for a line answered without a search is the one
\* handle_request returns for that line.
C28_Answer ==
    (pc = "respond" /\ calls = << >> /\ ~is_empty(line[1])) =>
        /\ wire # << >>
        /\ LinesOf(conn)[Len(LinesOf(conn))].text = line[1]
        /\ \E ax \in PlatformAnswers(line[1]) :
              LET o == handle_request(provider, line[1], ax)
              IN  o.route = "reply" => response[1] = o.response

\* A step that writes a response writes the one held for the last line
\* read from that stream, which is the only unanswered one; a step that
\* reads a blank line starts no request.
C28_Step ==
    /\ \A c \in 0..accepted :
          Len(ResponsesOf(c)') = Len(ResponsesOf(c)) + 1 =>
              /\ InProgress(c)
              /\ pc = "respond"
              /\ pc' = "idle"
              /\ wire'[Len(wire')].text = response[1]
              /\ LinesOf(c)[Len(ResponsesOf(c)')].text = line[1]
              /\ Len(LinesOf(c)) = Len(ResponsesOf(c)')
    /\ (Len(wire') = Len(wire) + 1 /\ is_empty(wire'[Len(wire')].text)) =>
          /\ wire'[Len(wire')].dir = "in"
          /\ UNCHANGED << pc, line, response, calls, conn >>

\* C28 as stated: on stdio and on each unix socket connection every line
\* that is not blank gets exactly one response, the k-th response answers
\* the k-th such line, and a blank line gets none.
C28_OneResponsePerLine == [](C28_OnePerLine /\ C28_Answer) /\ [][C28_Step]_vars

\* C28, amended: the same, except that a stream whose write failed has
\* ended with its last line unanswered.
C28_OneResponsePerLineUnlessEnded ==
    [](C28_OnePerLineUnlessEnded /\ C28_Answer) /\ [][C28_Step]_vars

\* Connection 1 has read a blank line and then a line that is not JSON,
\* and has answered the second and nothing else.
C28_Witness ==
    /\ Len(wire) = 3
    /\ \A i \in 1..3 : wire[i].conn = 1
    /\ is_empty(wire[1].text)
    /\ wire[2] = Event(1, "in", Garbage)
    /\ wire[3].dir = "out"
    /\ wire[3].text.content.response.status = "error"
    /\ pc = "idle"

\* The history's entries for an end of input on the stream c.
EofOn(c) == \E i \in 1..Len(wire) : wire[i] = Event(c, "end", End("eof"))

\* After an end of input on stdin the server is stopped; after one on a
\* connection that connection's handler has returned.
C29_Ended == \A c \in 0..accepted : EofOn(c) => Ended(c)

\* The step that meets the end of input on stdin stops the server, whether
\* or not a signal was sent; the one that meets it on a connection ends
\* that connection's handler and leaves the accept loop as it is.
C29_Step ==
    \A c \in 0..accepted :
        (~EofOn(c) /\ EofOn(c)') =>
            IF c = 0
            THEN server = "listening" /\ server' = "stopped" /\ signals' = signals
            ELSE /\ closed' = closed \cup {c}
                 /\ server' = server
                 /\ accepted' = accepted
                 /\ socket_file' = socket_file

\* C29: on stdio the end of input ends the read loop and stops the server
\* without any shutdown signal; on a unix socket connection it ends only
\* that connection's handler, and the accept loop stays listening.
C29_EofEndsItsLoop == [](C29_Ended) /\ [][C29_Step]_vars

\* Connection 1 met the end of its input; no signal was sent, the accept
\* loop is listening and connection 2 is being read.  (The stdio case, a
\* server stopped by the end of stdin with no signal, is C29_StdioWitness.)
C29_Witness ==
    /\ transport = "unix_socket"
    /\ EofOn(1)
    /\ ~Signalled
    /\ server = "listening"
    /\ Readers = {2}

C29_StdioWitness ==
    /\ transport = "stdio"
    /\ EofOn(0)
    /\ ~Signalled
    /\ handle = "held"
    /\ server = "stopped"

-----------------------------------------------------------------------------
(* Properties of the MacOSProvider *)

\* The identifiers get_node resolves now.
Resolves == {id \in AskedIds : node_id_to_element(element_cache, id).ok}

\* What the cache holds for an identifier is the element it was made from.
C30_Faithful ==
    \A id \in DOMAIN element_cache : element_to_node_id(element_cache[id]) = id

\* The children of the Node, or of each Node, last returned are resolved.
C30_ChildrenResolve ==
    (output # None /\ output[1].ok) =>
        LET returned == IF input[1].op = "get_children"
                        THEN output[1].val
                        ELSE << output[1].val >>
        IN  \A i \in 1..Len(returned) : IdsOf(returned[i]) \subseteq Resolves

\* A call resolves an identifier exactly if it was emitted before it, and
\* no call takes an identifier away.
C30_Step ==
    /\ Resolves \subseteq Resolves'
    /\ emitted \subseteq emitted'
    /\ (input'[1].node_id # None) =>
          (output'[1].ok <=> input'[1].node_id[1] \in emitted)

\* C30: after any calls of get_root, get_children and get_node, get_node
\* resolves exactly the identifiers the provider has emitted so far, as the
\* id of a Node or in a children list, and that set never shrinks: each
\* child identifier of a returned Node is resolved later, and an identifier
\* never emitted is not.
C30_CacheIsWhatWasEmitted ==
    /\ [](Resolves = emitted /\ DOMAIN element_cache = emitted)
    /\ [](C30_Faithful /\ C30_ChildrenResolve)
    /\ [][C30_Step]_vars

\* get_node has returned the Node of element 2, which the root emitted as
\* a child, and that Node names element 3; the identifier that is no
\* pointer is not resolved.
C30_Witness ==
    /\ input = Some(Asked("get_node", Some(element_to_node_id(2))))
    /\ output[1].ok
    /\ output[1].val.children = << element_to_node_id(3) >>
    /\ element_to_node_id(3) \in Resolves
    /\ << "test-id" >> \notin Resolves

-----------------------------------------------------------------------------
(* server.rs: the connection handlers of the unix socket, side by side *)

\* The connections whose handler tasks run at the same time.
MaxConnections == 2
Connections == 1..MaxConnections

\* The locals of handle_unix_socket_connection between two lines.
IdleTask ==
    [pc |-> "idle", line |-> None, response |-> None, name |-> << >>,
     to_visit |-> << >>, visited |-> {}, matches |-> << >>, nodes_checked |-> 0]

\* One visited set for all the searches of the process.
visited_shared(ts, c) == UNION {ts[d].visited : d \in DOMAIN ts}

\* let mut visited = HashSet::new(): the set belongs to the call of
\* handle_find_by_name that connection c is in.
visited_of(ts, c) == ts[c].visited

\* The handler of connection c reads the line l and handle_request answers it
\* without a search.
TaskRequest(c, l, ax) ==
    /\ tasks[c].pc = "idle"
    /\ LET o == handle_request(provider, l, ax)
       IN  /\ o.route = "reply"
           /\ tasks' = [tasks EXCEPT ![c] =
                            [IdleTask EXCEPT !.pc = "respond", !.line = Some(l),
                                             !.response = Some(o.response)]]
    /\ UNCHANGED << provider, pc, line, response, calls, search, lifecycle,
                    served, applied, startup, streams, platform, servers, path >>

\* The handler of connection c reads a FindByName: handle_find_by_name gets
\* the root and, unless that fails, sets up its stack.
TaskFindEnter(c, l) ==
    /\ tasks[c].pc = "idle"
    /\ handle_request(provider, l, K_AX_ERROR_SUCCESS).route = "find_by_name"
    /\ LET o == handle_request(provider, l, K_AX_ERROR_SUCCESS)
           root == get_root(provider)
       IN  tasks' = [tasks EXCEPT ![c] =
                IF root.ok
                THEN [IdleTask EXCEPT !.pc = "find_by_name", !.line = Some(l),
                                      !.name = o.name,
                                      !.to_visit = << root.val.id >>]
                ELSE [IdleTask EXCEPT !.pc = "respond", !.line = Some(l),
                                      !.response =
                                          Some(MessageResponse(Error(ErrorInfo("Internal",
                                              << "Failed to get root: " >> \o root.err))))]]
    /\ UNCHANGED << provider, pc, line, response, calls, search, lifecycle,
                    served, applied, startup, streams, platform, servers, path >>

\* One turn of the loop of handle_find_by_name in the handler of connection c.
TaskFindLoop(c) ==
    /\ tasks[c].pc = "find_by_name"
    /\ LET t == tasks[c]
           n == Len(t.to_visit)
       IN  IF n = 0
           THEN tasks' = [tasks EXCEPT ![c].pc = "find_by_name_return"]
           ELSE LET node == NodeOf(provider, t.to_visit[n])
                    rest == SubSeq(t.to_visit, 1, n - 1)
                IN  IF limit_reached(t.nodes_checked)
                    THEN tasks' = [tasks EXCEPT ![c].pc = "find_by_name_return",
                                                ![c].to_visit = rest]
                    ELSE IF ~visited_insert(visited_of(tasks, c), node.id)
                    THEN tasks' = [tasks EXCEPT
                                     ![c].nodes_checked = t.nodes_checked + 1,
                                     ![c].to_visit = rest]
                    ELSE tasks' = [tasks EXCEPT
                                     ![c].nodes_checked = t.nodes_checked + 1,
                                     ![c].visited = t.visited \cup {node.id},
                                     ![c].matches = IF name_matches(node, t.name)
                                                    THEN Append(t.matches, node)
                                                    ELSE t.matches,
                                     ![c].to_visit =
                                         rest \o resolved_children(provider, node)]
    /\ UNCHANGED << provider, pc, line, response, calls, search, lifecycle,
                    served, applied, startup, streams, platform, servers, path >>

\* handle_find_by_name returns in the handler of connection c.
TaskFindReturn(c) ==
    /\ tasks[c].pc = "find_by_name_return"
    /\ tasks' = [tasks EXCEPT
                    ![c].pc = "respond",
                    ![c].response = Some(MessageResponse(Success(Nodes(tasks[c].matches))))]
    /\ UNCHANGED << provider, pc, line, response, calls, search, lifecycle,
                    served, applied, startup, streams, platform, servers, path >>

\* The handler of connection c writes its response and reads on.
TaskWrite(c) ==
    /\ tasks[c].pc = "respond"
    /\ tasks' = [tasks EXCEPT ![c] = IdleTask]
    /\ UNCHANGED << provider, pc, line, response, calls, search, lifecycle,
                    served, applied, startup, streams, platform, servers, path >>

\* The graphs the connections search: the small ones of the server runs, and
\* the diamond with its cycle and its doubly referenced node.
ConcurrentProviders ==
    ServerProviders \cup {p \in FixedProviders : p.kind = "diamond"}

\* The accept loop has spawned a handler for each connection; all share the
\* provider (Arc::clone).
ConcurrentInit ==
    /\ provider \in ConcurrentProviders
    /\ pc = "idle"
    /\ line = None
    /\ response = None
    /\ calls = << >>
    /\ name = << >>
    /\ to_visit = << >>
    /\ visited = {}
    /\ matches = << >>
    /\ nodes_checked = 0
    /\ tested = << >>
    /\ expanded = << >>
    /\ transport = "unix_socket"
    /\ server = "listening"
    /\ handle = "held"
    /\ shutdown_tx = Some("tx")
    /\ signals = 0
    /\ accepted = MaxConnections
    /\ socket_file = TRUE
    /\ served = << >>
    /\ NotApplied
    /\ started = "ok"
    /\ announced = TRUE
    /\ closed = {}
    /\ conn = 0
    /\ wire = << >>
    /\ element_cache = << >>
    /\ emitted = {}
    /\ tasks = [c \in Connections |-> IdleTask]
    /\ servers = << >>
    /\ path = None

\* The handler tasks are spawned (tokio::spawn) and run independently: any
\* of them may take the next step.
ConcurrentNext ==
    \E c \in Connections :
        \/ tasks[c].pc = "idle" /\ \E l \in ServerLines :
                \E ax \in PlatformAnswers(l) : TaskRequest(c, l, ax)
        \/ tasks[c].pc = "idle" /\ \E l \in ServerLines : TaskFindEnter(c, l)
        \/ TaskFindLoop(c)
        \/ TaskFindReturn(c)
        \/ TaskWrite(c)

ConcurrentSpec == ConcurrentInit /\ [][ConcurrentNext]_vars

-----------------------------------------------------------------------------
(* server.rs: several unix-socket servers of one process on one socket path *)

\* The start_mcp_server calls of the process; with config.socket_path None
\* each gets /tmp/accessibility_mcp_<pid>.sock.
MaxServers == 2
ServerIds == 1..MaxServers

\* Before start_mcp_server is called.
NotStarted == [task |-> "none", handle |-> "none", signal |-> FALSE, accepted |-> 0]

\* start_mcp_server for the i-th time: the server task is spawned and the
\* handle returned.
StartServer(i) ==
    /\ servers[i].task = "none"
    /\ servers' = [servers EXCEPT ![i].task = "starting", ![i].handle = "held"]
    /\ UNCHANGED << provider, pc, line, response, calls, search, lifecycle,
                    served, applied, startup, streams, platform, tasks, path >>

\* let _ = std::fs::remove_file(&socket_path): whatever is at the path goes.
RemoveOld(i) ==
    /\ servers[i].task = "starting"
    /\ servers' = [servers EXCEPT ![i].task = "binding"]
    /\ path' = None
    /\ UNCHANGED << provider, pc, line, response, calls, search, lifecycle,
                    served, applied, startup, streams, platform, tasks >>

\* UnixListener::bind(&socket_path): it fails when a file is at the path
\* (address in use) and may fail for other reasons; on failure the task
\* returns.
BindPath(i, bound) ==
    /\ servers[i].task = "binding"
    /\ bound => path = None
    /\ servers' = [servers EXCEPT ![i].task = IF bound THEN "listening" ELSE "stopped"]
    /\ path' = IF bound THEN Some(i) ELSE path
    /\ UNCHANGED << provider, pc, line, response, calls, search, lifecycle,
                    served, applied, startup, streams, platform, tasks >>

\* listener.accept(): a client that connects through the file reaches the
\* server the file belongs to.
AcceptOn(i) ==
    /\ servers[i].task = "listening"
    /\ path = Some(i)
    /\ servers[i].accepted < MaxAccepted
    /\ servers' = [servers EXCEPT ![i].accepted = @ + 1]
    /\ UNCHANGED << provider, pc, line, response, calls, search, lifecycle,
                    served, applied, startup, streams, platform, tasks, path >>

\* McpHandle::shutdown or the drop of the handle: the signal is sent.
SignalServer(i, how) ==
    /\ servers[i].handle = "held"
    /\ servers' = [servers EXCEPT ![i].handle = how, ![i].signal = TRUE]
    /\ UNCHANGED << provider, pc, line, response, calls, search, lifecycle,
                    served, applied, startup, streams, platform, tasks, path >>

\* The shutdown branch of the accept loop: remove_file(&socket_path); break.
StopServer(i) ==
    /\ servers[i].task = "listening"
    /\ servers[i].signal
    /\ servers' = [servers EXCEPT ![i].task = "stopped"]
    /\ path' = None
    /\ UNCHANGED << provider, pc, line, response, calls, search, lifecycle,
                    served, applied, startup, streams, platform, tasks >>

\* No server is started; a file of an earlier process may be at the path.
SharedPathInit ==
    /\ provider \in TransportProviders
    /\ pc = "idle"
    /\ line = None
    /\ response = None
    /\ calls = << >>
    /\ name = << >>
    /\ to_visit = << >>
    /\ visited = {}
    /\ matches = << >>
    /\ nodes_checked = 0
    /\ tested = << >>
    /\ expanded = << >>
    /\ transport = "unix_socket"
    /\ server = "stopped"
    /\ handle = "none"
    /\ shutdown_tx = None
    /\ signals = 0
    /\ accepted = 0
    /\ socket_file = FALSE
    /\ served = << >>
    /\ NotApplied
    /\ started = "no"
    /\ announced = FALSE
    /\ closed = {}
    /\ conn = 0
    /\ wire = << >>
    /\ element_cache = << >>
    /\ emitted = {}
    /\ tasks = << >>
    /\ servers = [i \in ServerIds |-> NotStarted]
    /\ path \in {None, Some(0)}

SharedPathNext ==
    \E i \in ServerIds :
        \/ StartServer(i)
        \/ RemoveOld(i)
        \/ \E bound \in BOOLEAN : BindPath(i, bound)
        \/ AcceptOn(i)
        \/ \E how \in {"shutdown", "dropped"} : SignalServer(i, how)
        \/ StopServer(i)

SharedPathSpec == SharedPathInit /\ [][SharedPathNext]_vars

-----------------------------------------------------------------------------
(* Properties of the search and of the calls of the handlers *)

\* The identifiers reachable from the set S by child references the provider
\* resolves.
RECURSIVE ReachableFrom(_, _)
ReachableFrom(p, S) ==
    LET T == S \cup {c \in Registered(p) :
                        \E id \in S : \E i \in 1..Len(ChildrenOf(p, id)) :
                            ChildrenOf(p, id)[i] = c}
    IN  IF T = S THEN S ELSE ReachableFrom(p, T)
Reachable(p) == ReachableFrom(p, {RootId})

\* The graph has at most MAX_NODES nodes, so at most that many are reachable,
\* and every child reference of a reachable node resolves.
FitsTheBudget(p) ==
    /\ Cardinality(Registered(p)) <= MAX_NODES
    /\ \A id \in Reachable(p) : \A i \in 1..Len(ChildrenOf(p, id)) :
            ChildrenOf(p, id)[i] \in Registered(p)

\* A search that had its root has returned.
Searched == pc = "respond" /\ tested # << >>

\* The result holds every reachable node whose name matches the query.
ResultIsComplete ==
    \A id \in Reachable(provider) :
        ShouldMatch(NameOf(provider, id), name)
            => id \in {matches[j].id : j \in 1..Len(matches)}

\* C31: if at most MAX_NODES distinct nodes are reachable from the root and
\* every child identifier resolves, the result of find_by_name holds every
\* reachable node whose name matches the query, also when the graph has
\* cycles or several references to the same child.
C31_CompleteWithinTheBudget ==
    (Searched /\ FitsTheBudget(provider)) => ResultIsComplete

\* The child references of the whole graph, counted with their repetitions.
RECURSIVE SumOver(_, _)
SumOver(p, S) ==
    IF S = {} THEN 0
    ELSE LET id == CHOOSE x \in S : TRUE
         IN  Len(ChildrenOf(p, id)) + SumOver(p, S \ {id})
References(p) == SumOver(p, Registered(p))

\* C31, as far as the code goes: the result is complete when the root and
\* all child references together, each repetition counted, fit the budget.
C31_CompleteWhenTheReferencesFit ==
    (Searched /\ FitsTheBudget(provider) /\ 1 + References(provider) <= MAX_NODES)
        => ResultIsComplete

\* The search of the diamond (a cycle, a node with two parents) for "ok"
\* returned both matching nodes.
C31_DiamondIsComplete ==
    /\ Searched
    /\ provider.kind = "diamond"
    /\ name = Nameok
    /\ FitsTheBudget(provider)
    /\ ResultIsComplete
    /\ Len(matches) = 2

\* The entry on top of the stack and the stack below it.
Top == to_visit[Len(to_visit)]
Below == SubSeq(to_visit, 1, Len(to_visit) - 1)

\* A turn of the loop that pops an entry within the limit.
Pops == pc = "find_by_name" /\ to_visit # << >> /\ nodes_checked < MAX_NODES

\* A turn of the loop takes the most recently pushed entry; if its identifier
\* is new it is the next one processed and its resolved children go on top
\* of everything pushed earlier, the last child topmost; otherwise nothing
\* is pushed.
C32_Step ==
    Pops =>
        IF Top \in visited
        THEN to_visit' = Below /\ tested' = tested /\ matches' = matches
        ELSE /\ tested' = Append(tested, Top)
             /\ to_visit' = Below \o Resolvable(ChildrenOf(provider, Top))

\* The search starts from the root, and the result lists the matching nodes
\* in the order in which they were processed.
C32_Order ==
    /\ tested # << >> => tested[1] = RootId
    /\ pc = "find_by_name" /\ tested = << >> => to_visit = << RootId >>
    /\ Ids(matches) =
          SelectSeq(tested, LAMBDA id : ShouldMatch(NameOf(provider, id), name))

CallsOfItsKind(r) ==
    CASE r.method = "QueryTree" ->
            /\ Len(calls) = 1
            /\ calls[1].op = "get_root"
      [] r.method = "GetNode" ->
            /\ Len(calls) = 1
            /\ calls[1].op = "get_node"
            /\ calls[1].arg = << r.node_id >>
      [] r.method = "PerformAction" ->
            /\ Len(calls) = 1
            /\ calls[1].op = "perform_action"
            /\ calls[1].arg = << r.node_id, r.action >>
      [] r.method = "FindByName" ->
            /\ Len(calls) >= 1
            /\ calls[1].op = "get_root"
            /\ \A i \in 2..Len(calls) : calls[i].op = "get_node"
      [] OTHER -> calls = << >>

\* C33: each request triggers exactly the provider calls of its kind:
\* QueryTree one get_root; GetNode one get_node on the requested id;
\* PerformAction one perform_action with the requested node id and action,
\* without a get_node before it and whatever actions the node advertises;
\* Initialize and ToolsList none; FindByName get_root and then only get_node.
\* A line that is not answered by a handler triggers none.
C33_CallsOfTheRequestKind ==
    /\ pc = "idle" => calls = << >>
    /\ pc # "idle" =>
          LET m == Parsed
          IN  IF m.ok /\ m.val.protocol_version = PROTOCOL_VERSION
                      /\ IsRequest(m.val.content)
              THEN (pc = "respond" \/ m.val.content.request.method = "FindByName")
                   /\ CallsOfItsKind(m.val.content.request)
              ELSE calls = << >>

\* A set_value on a registered node, which advertises only press, was
\* forwarded as the single provider call and succeeded.
C33_Witness ==
    /\ Requested("PerformAction")
    /\ TheRequest.node_id \in Registered(provider)
    /\ TheRequest.action.type = "SetValue"
    /\ NodeOf(provider, TheRequest.node_id).actions = << ActionPress >>
    /\ Len(calls) = 1
    /\ calls[1] = [op |-> "perform_action",
                   arg |-> << TheRequest.node_id, TheRequest.action >>, ok |-> TRUE]
    /\ IsSuccess(ActionResult(TRUE))

\* The result of a search that runs from start to end by itself: stack,
\* seen, found and checked are its own.
RECURSIVE search_alone(_, _, _, _, _, _)
search_alone(p, query, stack, seen, found, checked) ==
    IF stack = << >> \/ checked >= MAX_NODES THEN found
    ELSE LET id == stack[Len(stack)]
             rest == SubSeq(stack, 1, Len(stack) - 1)
         IN  IF id \in seen
             THEN search_alone(p, query, rest, seen, found, checked + 1)
             ELSE search_alone(p, query,
                      rest \o SelectSeq(ChildrenOf(p, id),
                                        LAMBDA ch : ch \in Registered(p)),
                      seen \cup {id},
                      IF ShouldMatch(NameOf(p, id), query)
                      THEN Append(found, NodeOf(p, id))
                      ELSE found,
                      checked + 1)

\* The response the line l gets from a server that handles nothing else.
AloneResponse(p, l, ax) ==
    LET o == handle_request(p, l, ax)
    IN  IF o.route = "reply" THEN o.response
        ELSE IF ~get_root(p).ok
        THEN MessageError("Internal", << "Failed to get root: " >> \o get_root(p).err)
        ELSE MessageSuccess(Nodes(search_alone(p, o.name, << RootId >>, {}, << >>, 0)))

\* The response of every connection is the one its line gets alone.
C34_Answer ==
    \A c \in Connections :
        tasks[c].pc = "respond" =>
            \E ax \in PlatformAnswers(Unwrap(tasks[c].line)) :
                tasks[c].response =
                    Some(AloneResponse(provider, Unwrap(tasks[c].line), ax))

\* A step of one handler leaves the locals of every other handler alone, and
\* a handler that has written its response keeps nothing of the request.
C34_Step ==
    \A c \in Connections :
        /\ tasks'[c] # tasks[c] =>
              \A d \in Connections \ {c} : tasks'[d] = tasks[d]
        /\ (tasks[c].pc = "respond" /\ tasks'[c] # tasks[c]) => tasks'[c] = IdleTask

AnsweredError ==
    /\ pc = "respond"
    /\ IsResponse(Unwrap(response).content)
    /\ Unwrap(response).content.response.status = "error"
ErrorCode == Unwrap(response).content.response.error.code

\* The request was a GetNode (a PerformAction) and its provider call failed.
FailedCall(method, op) ==
    /\ Requested(method)
    /\ Len(calls) = 1
    /\ calls[1].op = op
    /\ ~calls[1].ok

\* C35: every Error response carries the code not_found, and then it answers
\* a failed GetNode, or invalid_action, and then it answers a failed
\* PerformAction, or internal, and then it answers any other failure; the
\* codes permission_denied and transient are never emitted, whatever failure
\* the provider reports.
C35_ErrorCodes ==
    AnsweredError =>
        /\ ErrorCode \in {"NotFound", "InvalidAction", "Internal"}
        /\ ErrorCode = "NotFound" <=> FailedCall("GetNode", "get_node")
        /\ ErrorCode = "InvalidAction" <=> FailedCall("PerformAction", "perform_action")

\* A press on a registered node was refused by the platform (accessibility
\* API disabled) and answered with invalid_action.
C35_Witness ==
    /\ AnsweredError
    /\ Requested("PerformAction")
    /\ TheRequest.node_id \in Registered(provider)
    /\ TheRequest.action = ActionPress
    /\ ~calls[1].ok
    /\ ErrorCode = "InvalidAction"

\* The line being handled is a request of the server's version for the
\* root: a QueryTree or a FindByName.
AsksForTheRoot ==
    /\ pc # "idle"
    /\ LET m == Parsed
       IN  /\ m.ok
           /\ m.val.protocol_version = PROTOCOL_VERSION
           /\ IsRequest(m.val.content)
           /\ m.val.content.request.method \in {"QueryTree", "FindByName"}

\* C36: when provider.get_root fails, QueryTree and FindByName are both
\* answered with an Error of code internal; FindByName does not turn the
\* failure into an empty Success and calls get_node for nothing.
C36_RootFailureIsInternalError ==
    (AsksForTheRoot /\ ~get_root(provider).ok) =>
        /\ pc = "respond"
        /\ IsError("Internal")
        /\ starts_with(ErrorMessage, << "Failed to get root: " >>)
        /\ Len(calls) = 1
        /\ calls[1].op = "get_root"
        /\ ~calls[1].ok
        /\ nodes_checked = 0
        /\ matches = << >>

\* A find_by_name for "ok" on a provider without a root was answered with an
\* internal error after the one failed get_root.
C36_Witness ==
    /\ Requested("FindByName")
    /\ TheRequest.name = Nameok
    /\ ~get_root(provider).ok
    /\ IsError("Internal")
    /\ calls = << [op |-> "get_root", arg |-> << >>, ok |-> FALSE] >>

\* The same for a query_tree.
C36_QueryTreeWitness ==
    /\ Requested("QueryTree")
    /\ ~get_root(provider).ok
    /\ IsError("Internal")
    /\ calls = << [op |-> "get_root", arg |-> << >>, ok |-> FALSE] >>

\* C37: while a unix-socket server is listening, the socket file at its
\* path exists until that server itself shuts down: the start or the shutdown
\* of another server on the same path does not remove it.
C37_ListeningServerHasItsFile ==
    \A i \in ServerIds : servers[i].task = "listening" => path # None

\* C37, for a process that starts one server on the path: while the server
\* listens, the file at the path is its socket.
C37_TheOnlyServerHasItsFile ==
    \A i \in ServerIds :
        (servers[i].task = "listening"
            /\ \A j \in ServerIds \ {i} : servers[j].task = "none")
        => path = Some(i)

\* The only server started listens with a connection accepted and its
\* handle held.
C37_OneServerListens ==
    /\ servers[1] = [task |-> "listening", handle |-> "held", signal |-> FALSE,
                     accepted |-> 1]
    /\ servers[2] = NotStarted
    /\ path = Some(1)

\* The Response that went into the round trip and the one that came out.
ResponseIn == input.value.content.response
ResponseOut == Unwrap(output).val.content.response

\* The round trip gave back a Message of the same version that carries a
\* Response of the same status.
SameEnvelope ==
    /\ Unwrap(output).ok
    /\ Unwrap(output).val.protocol_version = input.value.protocol_version
    /\ IsResponse(Unwrap(output).val.content)
    /\ ResponseOut.status = ResponseIn.status

\* C38: serialising a response Message the server produces and deserialising
\* it again yields a Message with the same protocol_version, the same
\* success/error status and the same result kind and payload (tree, single
\* node, action result or node list).
C38_ResponseRoundTrip ==
    IsSome(output) =>
        /\ SameEnvelope
        /\ ResponseIn.status = "success" =>
              /\ ResponseOut.result.variant = ResponseIn.result.variant
              /\ ResponseOut.result = ResponseIn.result
        /\ ResponseIn.status = "error" => ResponseOut.error = ResponseIn.error

\* C38, as far as the code goes: the version, the status, the error and the
\* payload come back, and so does the kind of a tree, a node and an action
\* result; a node list comes back as a tree of the same nodes.
C38_NodeListComesBackAsATree ==
    IsSome(output) =>
        /\ SameEnvelope
        /\ ResponseIn.status = "error" => ResponseOut = ResponseIn
        /\ ResponseIn.status = "success" =>
              IF ResponseIn.result.variant = "Nodes"
              THEN ResponseOut.result = Tree(ResponseIn.result.nodes)
              ELSE ResponseOut.result = ResponseIn.result

\* The answer of a find_by_name with two matches went through the round trip.
C38_NodeListWentRound ==
    /\ IsSome(output)
    /\ ResponseIn.status = "success"
    /\ ResponseIn.result.variant = "Nodes"
    /\ Len(ResponseIn.result.nodes) = 2
    /\ ResponseIn.result.nodes[1].name = Some(NameOK)
    /\ ResponseIn.result.nodes[2].children # << >>
    /\ Unwrap(output).ok

=============================================================================
